---- MODULE Spec2Model ----
(***************************************************************************)
(* A model of the Chyavan tracker (class Chyavan): the event buffer, the   *)
(* flush / sendEvents delivery path with its in-flight network calls, the  *)
(* enable / disable / destroy lifecycle and the capture listeners.         *)
(* Element attributes are sequences of UTF-16 code units, the texts given  *)
(* to sanitizeText sequences of one-character strings.                     *)
(***************************************************************************)
EXTENDS Integers, Sequences, FiniteSets, Bags, TLC

(***************************************************************************)
(* Bounds of the model.                                                    *)
(***************************************************************************)
\* events track() may accept in one run
MaxEvents == 3
\* largest bufferSize option tried at construction
MaxBufferSize == 2
\* events track() may accept in one run of the fair specification
MaxLiveEvents == 2
\* events track() may accept in one run of the lifecycle specification
MaxLifeEvents == 2
\* calls of one debounced function in one run, the longest delay it is
\* created with, and the last instant of the clock (in units of 50 ms)
MaxCalls == 4
MaxDelay == 8
MaxTime == 12
\* longest text given to sanitizeText
MaxTextLen == 3
\* largest scroll offset, document height and viewport height (in pixels)
MaxScroll == 4
MaxOutageEvents == 101
\* most sends in flight at once during the outage
MaxOutageFlights == 1
MaxStale == 2
\* the events of a run, counted from its first, whose data may be or become
\* other than plain
MaxOddData == 1

Null == "null"

(***************************************************************************)
(* String helpers.  A string the code lower-cases is a sequence of UTF-16   *)
(* code units, each a number in 0..65535.                                  *)
(***************************************************************************)
UpperChars == <<"A", "B", "C", "D", "E", "F", "G", "H", "I", "J", "K", "L", "M",
                "N", "O", "P", "Q", "R", "S", "T", "U", "V", "W", "X", "Y", "Z">>
LowerChars == <<"a", "b", "c", "d", "e", "f", "g", "h", "i", "j", "k", "l", "m",
                "n", "o", "p", "q", "r", "s", "t", "u", "v", "w", "x", "y", "z">>
DigitChars == <<"0", "1", "2", "3", "4", "5", "6", "7", "8", "9">>

\* the position of character ch in the sequence chars
IndexIn(chars, ch) == CHOOSE i \in 1..Len(chars) : chars[i] = ch

\* the code unit of an ASCII letter, digit or hyphen: "A" is 65, "a" is 97,
\* "0" is 48 and "-" is 45
CodeUnit(ch) ==
  IF ch = "-" THEN 45
  ELSE IF \E i \in 1..Len(DigitChars) : DigitChars[i] = ch
    THEN 47 + IndexIn(DigitChars, ch)
  ELSE IF \E i \in 1..Len(UpperChars) : UpperChars[i] = ch
    THEN 64 + IndexIn(UpperChars, ch)
  ELSE 96 + IndexIn(LowerChars, ch)

\* the code units of a string written with those characters
Units(chars) == [i \in 1..Len(chars) |-> CodeUnit(chars[i])]

\* The case data String.prototype.toLowerCase works from (Unicode 17).
\* LowerRanges holds the simple lower-case mappings as <<first, last, step,
\* image>>: the code points first, first + step, ..., last map to image,
\* image + step, and so on.  CasedRanges and CaseIgnorableRanges hold the code
\* points with the properties Cased and Case_Ignorable as <<first, last>>.
LowerRanges ==
  <<
     <<65, 90, 1, 97>>, <<192, 214, 1, 224>>, <<216, 222, 1, 248>>, <<256, 302, 2, 257>>, <<304, 304, 1, 105>>,
     <<306, 310, 2, 307>>, <<313, 327, 2, 314>>, <<330, 374, 2, 331>>, <<376, 376, 1, 255>>, <<377, 381, 2, 378>>,
     <<385, 385, 1, 595>>, <<386, 388, 2, 387>>, <<390, 390, 1, 596>>, <<391, 391, 1, 392>>, <<393, 394, 1, 598>>,
     <<395, 395, 1, 396>>, <<398, 398, 1, 477>>, <<399, 399, 1, 601>>, <<400, 400, 1, 603>>, <<401, 401, 1, 402>>,
     <<403, 403, 1, 608>>, <<404, 404, 1, 611>>, <<406, 406, 1, 617>>, <<407, 407, 1, 616>>, <<408, 408, 1, 409>>,
     <<412, 412, 1, 623>>, <<413, 413, 1, 626>>, <<415, 415, 1, 629>>, <<416, 420, 2, 417>>, <<422, 422, 1, 640>>,
     <<423, 423, 1, 424>>, <<425, 425, 1, 643>>, <<428, 428, 1, 429>>, <<430, 430, 1, 648>>, <<431, 431, 1, 432>>,
     <<433, 434, 1, 650>>, <<435, 437, 2, 436>>, <<439, 439, 1, 658>>, <<440, 440, 1, 441>>, <<444, 444, 1, 445>>,
     <<452, 452, 1, 454>>, <<453, 453, 1, 454>>, <<455, 455, 1, 457>>, <<456, 456, 1, 457>>, <<458, 458, 1, 460>>,
     <<459, 475, 2, 460>>, <<478, 494, 2, 479>>, <<497, 497, 1, 499>>, <<498, 500, 2, 499>>, <<502, 502, 1, 405>>,
     <<503, 503, 1, 447>>, <<504, 542, 2, 505>>, <<544, 544, 1, 414>>, <<546, 562, 2, 547>>, <<570, 570, 1, 11365>>,
     <<571, 571, 1, 572>>, <<573, 573, 1, 410>>, <<574, 574, 1, 11366>>, <<577, 577, 1, 578>>, <<579, 579, 1, 384>>,
     <<580, 580, 1, 649>>, <<581, 581, 1, 652>>, <<582, 590, 2, 583>>, <<880, 882, 2, 881>>, <<886, 886, 1, 887>>,
     <<895, 895, 1, 1011>>, <<902, 902, 1, 940>>, <<904, 906, 1, 941>>, <<908, 908, 1, 972>>, <<910, 911, 1, 973>>,
     <<913, 929, 1, 945>>, <<931, 939, 1, 963>>, <<975, 975, 1, 983>>, <<984, 1006, 2, 985>>, <<1012, 1012, 1, 952>>,
     <<1015, 1015, 1, 1016>>, <<1017, 1017, 1, 1010>>, <<1018, 1018, 1, 1019>>, <<1021, 1023, 1, 891>>, <<1024, 1039, 1, 1104>>,
     <<1040, 1071, 1, 1072>>, <<1120, 1152, 2, 1121>>, <<1162, 1214, 2, 1163>>, <<1216, 1216, 1, 1231>>, <<1217, 1229, 2, 1218>>,
     <<1232, 1326, 2, 1233>>, <<1329, 1366, 1, 1377>>, <<4256, 4293, 1, 11520>>, <<4295, 4295, 1, 11559>>, <<4301, 4301, 1, 11565>>,
     <<5024, 5103, 1, 43888>>, <<5104, 5109, 1, 5112>>, <<7305, 7305, 1, 7306>>, <<7312, 7354, 1, 4304>>, <<7357, 7359, 1, 4349>>,
     <<7680, 7828, 2, 7681>>, <<7838, 7838, 1, 223>>, <<7840, 7934, 2, 7841>>, <<7944, 7951, 1, 7936>>, <<7960, 7965, 1, 7952>>,
     <<7976, 7983, 1, 7968>>, <<7992, 7999, 1, 7984>>, <<8008, 8013, 1, 8000>>, <<8025, 8031, 2, 8017>>, <<8040, 8047, 1, 8032>>,
     <<8072, 8079, 1, 8064>>, <<8088, 8095, 1, 8080>>, <<8104, 8111, 1, 8096>>, <<8120, 8121, 1, 8112>>, <<8122, 8123, 1, 8048>>,
     <<8124, 8124, 1, 8115>>, <<8136, 8139, 1, 8050>>, <<8140, 8140, 1, 8131>>, <<8152, 8153, 1, 8144>>, <<8154, 8155, 1, 8054>>,
     <<8168, 8169, 1, 8160>>, <<8170, 8171, 1, 8058>>, <<8172, 8172, 1, 8165>>, <<8184, 8185, 1, 8056>>, <<8186, 8187, 1, 8060>>,
     <<8188, 8188, 1, 8179>>, <<8486, 8486, 1, 969>>, <<8490, 8490, 1, 107>>, <<8491, 8491, 1, 229>>, <<8498, 8498, 1, 8526>>,
     <<8544, 8559, 1, 8560>>, <<8579, 8579, 1, 8580>>, <<9398, 9423, 1, 9424>>, <<11264, 11311, 1, 11312>>, <<11360, 11360, 1, 11361>>,
     <<11362, 11362, 1, 619>>, <<11363, 11363, 1, 7549>>, <<11364, 11364, 1, 637>>, <<11367, 11371, 2, 11368>>, <<11373, 11373, 1, 593>>,
     <<11374, 11374, 1, 625>>, <<11375, 11375, 1, 592>>, <<11376, 11376, 1, 594>>, <<11378, 11378, 1, 11379>>, <<11381, 11381, 1, 11382>>,
     <<11390, 11391, 1, 575>>, <<11392, 11490, 2, 11393>>, <<11499, 11501, 2, 11500>>, <<11506, 11506, 1, 11507>>, <<42560, 42604, 2, 42561>>,
     <<42624, 42650, 2, 42625>>, <<42786, 42798, 2, 42787>>, <<42802, 42862, 2, 42803>>, <<42873, 42875, 2, 42874>>, <<42877, 42877, 1, 7545>>,
     <<42878, 42886, 2, 42879>>, <<42891, 42891, 1, 42892>>, <<42893, 42893, 1, 613>>, <<42896, 42898, 2, 42897>>, <<42902, 42920, 2, 42903>>,
     <<42922, 42922, 1, 614>>, <<42923, 42923, 1, 604>>, <<42924, 42924, 1, 609>>, <<42925, 42925, 1, 620>>, <<42926, 42926, 1, 618>>,
     <<42928, 42928, 1, 670>>, <<42929, 42929, 1, 647>>, <<42930, 42930, 1, 669>>, <<42931, 42931, 1, 43859>>, <<42932, 42946, 2, 42933>>,
     <<42948, 42948, 1, 42900>>, <<42949, 42949, 1, 642>>, <<42950, 42950, 1, 7566>>, <<42951, 42953, 2, 42952>>, <<42955, 42955, 1, 612>>,
     <<42956, 42970, 2, 42957>>, <<42972, 42972, 1, 411>>, <<42997, 42997, 1, 42998>>, <<65313, 65338, 1, 65345>>, <<66560, 66599, 1, 66600>>,
     <<66736, 66771, 1, 66776>>, <<66928, 66938, 1, 66967>>, <<66940, 66954, 1, 66979>>, <<66956, 66962, 1, 66995>>, <<66964, 66965, 1, 67003>>,
     <<68736, 68786, 1, 68800>>, <<68944, 68965, 1, 68976>>, <<71840, 71871, 1, 71872>>, <<93760, 93791, 1, 93792>>, <<93856, 93880, 1, 93883>>,
     <<125184, 125217, 1, 125218>>
  >>

CasedRanges ==
  <<
     <<65, 90>>, <<97, 122>>, <<170, 170>>, <<181, 181>>, <<186, 186>>, <<192, 214>>,
     <<216, 246>>, <<248, 442>>, <<444, 447>>, <<452, 659>>, <<662, 696>>, <<704, 705>>,
     <<736, 740>>, <<837, 837>>, <<880, 883>>, <<886, 887>>, <<890, 893>>, <<895, 895>>,
     <<902, 902>>, <<904, 906>>, <<908, 908>>, <<910, 929>>, <<931, 1013>>, <<1015, 1153>>,
     <<1162, 1327>>, <<1329, 1366>>, <<1376, 1416>>, <<4256, 4293>>, <<4295, 4295>>, <<4301, 4301>>,
     <<4304, 4346>>, <<4348, 4351>>, <<5024, 5109>>, <<5112, 5117>>, <<7296, 7306>>, <<7312, 7354>>,
     <<7357, 7359>>, <<7424, 7615>>, <<7680, 7957>>, <<7960, 7965>>, <<7968, 8005>>, <<8008, 8013>>,
     <<8016, 8023>>, <<8025, 8025>>, <<8027, 8027>>, <<8029, 8029>>, <<8031, 8061>>, <<8064, 8116>>,
     <<8118, 8124>>, <<8126, 8126>>, <<8130, 8132>>, <<8134, 8140>>, <<8144, 8147>>, <<8150, 8155>>,
     <<8160, 8172>>, <<8178, 8180>>, <<8182, 8188>>, <<8305, 8305>>, <<8319, 8319>>, <<8336, 8348>>,
     <<8450, 8450>>, <<8455, 8455>>, <<8458, 8467>>, <<8469, 8469>>, <<8473, 8477>>, <<8484, 8484>>,
     <<8486, 8486>>, <<8488, 8488>>, <<8490, 8493>>, <<8495, 8500>>, <<8505, 8505>>, <<8508, 8511>>,
     <<8517, 8521>>, <<8526, 8526>>, <<8544, 8575>>, <<8579, 8580>>, <<9398, 9449>>, <<11264, 11492>>,
     <<11499, 11502>>, <<11506, 11507>>, <<11520, 11557>>, <<11559, 11559>>, <<11565, 11565>>, <<42560, 42605>>,
     <<42624, 42653>>, <<42786, 42887>>, <<42891, 42894>>, <<42896, 42972>>, <<42993, 42998>>, <<43000, 43002>>,
     <<43824, 43866>>, <<43868, 43881>>, <<43888, 43967>>, <<64256, 64262>>, <<64275, 64279>>, <<65313, 65338>>,
     <<65345, 65370>>, <<66560, 66639>>, <<66736, 66771>>, <<66776, 66811>>, <<66928, 66938>>, <<66940, 66954>>,
     <<66956, 66962>>, <<66964, 66965>>, <<66967, 66977>>, <<66979, 66993>>, <<66995, 67001>>, <<67003, 67004>>,
     <<67456, 67456>>, <<67459, 67461>>, <<67463, 67504>>, <<67506, 67514>>, <<68736, 68786>>, <<68800, 68850>>,
     <<68944, 68965>>, <<68976, 68997>>, <<71840, 71903>>, <<93760, 93823>>, <<93856, 93880>>, <<93883, 93907>>,
     <<119808, 119892>>, <<119894, 119964>>, <<119966, 119967>>, <<119970, 119970>>, <<119973, 119974>>, <<119977, 119980>>,
     <<119982, 119993>>, <<119995, 119995>>, <<119997, 120003>>, <<120005, 120069>>, <<120071, 120074>>, <<120077, 120084>>,
     <<120086, 120092>>, <<120094, 120121>>, <<120123, 120126>>, <<120128, 120132>>, <<120134, 120134>>, <<120138, 120144>>,
     <<120146, 120485>>, <<120488, 120512>>, <<120514, 120538>>, <<120540, 120570>>, <<120572, 120596>>, <<120598, 120628>>,
     <<120630, 120654>>, <<120656, 120686>>, <<120688, 120712>>, <<120714, 120744>>, <<120746, 120770>>, <<120772, 120779>>,
     <<122624, 122633>>, <<122635, 122654>>, <<122661, 122666>>, <<122928, 122989>>, <<125184, 125251>>, <<127280, 127305>>,
     <<127312, 127337>>, <<127344, 127369>>
  >>

CaseIgnorableRanges ==
  <<
     <<39, 39>>, <<46, 46>>, <<58, 58>>, <<94, 94>>, <<96, 96>>, <<168, 168>>,
     <<173, 173>>, <<175, 175>>, <<180, 180>>, <<183, 184>>, <<688, 879>>, <<884, 885>>,
     <<890, 890>>, <<900, 901>>, <<903, 903>>, <<1155, 1161>>, <<1369, 1369>>, <<1375, 1375>>,
     <<1425, 1469>>, <<1471, 1471>>, <<1473, 1474>>, <<1476, 1477>>, <<1479, 1479>>, <<1524, 1524>>,
     <<1536, 1541>>, <<1552, 1562>>, <<1564, 1564>>, <<1600, 1600>>, <<1611, 1631>>, <<1648, 1648>>,
     <<1750, 1757>>, <<1759, 1768>>, <<1770, 1773>>, <<1807, 1807>>, <<1809, 1809>>, <<1840, 1866>>,
     <<1958, 1968>>, <<2027, 2037>>, <<2042, 2042>>, <<2045, 2045>>, <<2070, 2093>>, <<2137, 2139>>,
     <<2184, 2184>>, <<2192, 2193>>, <<2199, 2207>>, <<2249, 2306>>, <<2362, 2362>>, <<2364, 2364>>,
     <<2369, 2376>>, <<2381, 2381>>, <<2385, 2391>>, <<2402, 2403>>, <<2417, 2417>>, <<2433, 2433>>,
     <<2492, 2492>>, <<2497, 2500>>, <<2509, 2509>>, <<2530, 2531>>, <<2558, 2558>>, <<2561, 2562>>,
     <<2620, 2620>>, <<2625, 2626>>, <<2631, 2632>>, <<2635, 2637>>, <<2641, 2641>>, <<2672, 2673>>,
     <<2677, 2677>>, <<2689, 2690>>, <<2748, 2748>>, <<2753, 2757>>, <<2759, 2760>>, <<2765, 2765>>,
     <<2786, 2787>>, <<2810, 2815>>, <<2817, 2817>>, <<2876, 2876>>, <<2879, 2879>>, <<2881, 2884>>,
     <<2893, 2893>>, <<2901, 2902>>, <<2914, 2915>>, <<2946, 2946>>, <<3008, 3008>>, <<3021, 3021>>,
     <<3072, 3072>>, <<3076, 3076>>, <<3132, 3132>>, <<3134, 3136>>, <<3142, 3144>>, <<3146, 3149>>,
     <<3157, 3158>>, <<3170, 3171>>, <<3201, 3201>>, <<3260, 3260>>, <<3263, 3263>>, <<3270, 3270>>,
     <<3276, 3277>>, <<3298, 3299>>, <<3328, 3329>>, <<3387, 3388>>, <<3393, 3396>>, <<3405, 3405>>,
     <<3426, 3427>>, <<3457, 3457>>, <<3530, 3530>>, <<3538, 3540>>, <<3542, 3542>>, <<3633, 3633>>,
     <<3636, 3642>>, <<3654, 3662>>, <<3761, 3761>>, <<3764, 3772>>, <<3782, 3782>>, <<3784, 3790>>,
     <<3864, 3865>>, <<3893, 3893>>, <<3895, 3895>>, <<3897, 3897>>, <<3953, 3966>>, <<3968, 3972>>,
     <<3974, 3975>>, <<3981, 3991>>, <<3993, 4028>>, <<4038, 4038>>, <<4141, 4144>>, <<4146, 4151>>,
     <<4153, 4154>>, <<4157, 4158>>, <<4184, 4185>>, <<4190, 4192>>, <<4209, 4212>>, <<4226, 4226>>,
     <<4229, 4230>>, <<4237, 4237>>, <<4253, 4253>>, <<4348, 4348>>, <<4957, 4959>>, <<5906, 5908>>,
     <<5938, 5939>>, <<5970, 5971>>, <<6002, 6003>>, <<6068, 6069>>, <<6071, 6077>>, <<6086, 6086>>,
     <<6089, 6099>>, <<6103, 6103>>, <<6109, 6109>>, <<6155, 6159>>, <<6211, 6211>>, <<6277, 6278>>,
     <<6313, 6313>>, <<6432, 6434>>, <<6439, 6440>>, <<6450, 6450>>, <<6457, 6459>>, <<6679, 6680>>,
     <<6683, 6683>>, <<6742, 6742>>, <<6744, 6750>>, <<6752, 6752>>, <<6754, 6754>>, <<6757, 6764>>,
     <<6771, 6780>>, <<6783, 6783>>, <<6823, 6823>>, <<6832, 6877>>, <<6880, 6891>>, <<6912, 6915>>,
     <<6964, 6964>>, <<6966, 6970>>, <<6972, 6972>>, <<6978, 6978>>, <<7019, 7027>>, <<7040, 7041>>,
     <<7074, 7077>>, <<7080, 7081>>, <<7083, 7085>>, <<7142, 7142>>, <<7144, 7145>>, <<7149, 7149>>,
     <<7151, 7153>>, <<7212, 7219>>, <<7222, 7223>>, <<7288, 7293>>, <<7376, 7378>>, <<7380, 7392>>,
     <<7394, 7400>>, <<7405, 7405>>, <<7412, 7412>>, <<7416, 7417>>, <<7468, 7530>>, <<7544, 7544>>,
     <<7579, 7679>>, <<8125, 8125>>, <<8127, 8129>>, <<8141, 8143>>, <<8157, 8159>>, <<8173, 8175>>,
     <<8189, 8190>>, <<8203, 8207>>, <<8216, 8217>>, <<8228, 8228>>, <<8231, 8231>>, <<8234, 8238>>,
     <<8288, 8292>>, <<8294, 8303>>, <<8305, 8305>>, <<8319, 8319>>, <<8336, 8348>>, <<8400, 8432>>,
     <<11388, 11389>>, <<11503, 11505>>, <<11631, 11631>>, <<11647, 11647>>, <<11744, 11775>>, <<11823, 11823>>,
     <<12293, 12293>>, <<12330, 12333>>, <<12337, 12341>>, <<12347, 12347>>, <<12441, 12446>>, <<12540, 12542>>,
     <<40981, 40981>>, <<42232, 42237>>, <<42508, 42508>>, <<42607, 42610>>, <<42612, 42621>>, <<42623, 42623>>,
     <<42652, 42655>>, <<42736, 42737>>, <<42752, 42785>>, <<42864, 42864>>, <<42888, 42890>>, <<42993, 42996>>,
     <<43000, 43001>>, <<43010, 43010>>, <<43014, 43014>>, <<43019, 43019>>, <<43045, 43046>>, <<43052, 43052>>,
     <<43204, 43205>>, <<43232, 43249>>, <<43263, 43263>>, <<43302, 43309>>, <<43335, 43345>>, <<43392, 43394>>,
     <<43443, 43443>>, <<43446, 43449>>, <<43452, 43453>>, <<43471, 43471>>, <<43493, 43494>>, <<43561, 43566>>,
     <<43569, 43570>>, <<43573, 43574>>, <<43587, 43587>>, <<43596, 43596>>, <<43632, 43632>>, <<43644, 43644>>,
     <<43696, 43696>>, <<43698, 43700>>, <<43703, 43704>>, <<43710, 43711>>, <<43713, 43713>>, <<43741, 43741>>,
     <<43756, 43757>>, <<43763, 43764>>, <<43766, 43766>>, <<43867, 43871>>, <<43881, 43883>>, <<44005, 44005>>,
     <<44008, 44008>>, <<44013, 44013>>, <<64286, 64286>>, <<64434, 64450>>, <<65024, 65039>>, <<65043, 65043>>,
     <<65056, 65071>>, <<65106, 65106>>, <<65109, 65109>>, <<65279, 65279>>, <<65287, 65287>>, <<65294, 65294>>,
     <<65306, 65306>>, <<65342, 65342>>, <<65344, 65344>>, <<65392, 65392>>, <<65438, 65439>>, <<65507, 65507>>,
     <<65529, 65531>>, <<66045, 66045>>, <<66272, 66272>>, <<66422, 66426>>, <<67456, 67461>>, <<67463, 67504>>,
     <<67506, 67514>>, <<68097, 68099>>, <<68101, 68102>>, <<68108, 68111>>, <<68152, 68154>>, <<68159, 68159>>,
     <<68325, 68326>>, <<68900, 68903>>, <<68942, 68942>>, <<68969, 68973>>, <<68975, 68975>>, <<69291, 69292>>,
     <<69317, 69317>>, <<69370, 69375>>, <<69446, 69456>>, <<69506, 69509>>, <<69633, 69633>>, <<69688, 69702>>,
     <<69744, 69744>>, <<69747, 69748>>, <<69759, 69761>>, <<69811, 69814>>, <<69817, 69818>>, <<69821, 69821>>,
     <<69826, 69826>>, <<69837, 69837>>, <<69888, 69890>>, <<69927, 69931>>, <<69933, 69940>>, <<70003, 70003>>,
     <<70016, 70017>>, <<70070, 70078>>, <<70089, 70092>>, <<70095, 70095>>, <<70191, 70193>>, <<70196, 70196>>,
     <<70198, 70199>>, <<70206, 70206>>, <<70209, 70209>>, <<70367, 70367>>, <<70371, 70378>>, <<70400, 70401>>,
     <<70459, 70460>>, <<70464, 70464>>, <<70502, 70508>>, <<70512, 70516>>, <<70587, 70592>>, <<70606, 70606>>,
     <<70608, 70608>>, <<70610, 70610>>, <<70625, 70626>>, <<70712, 70719>>, <<70722, 70724>>, <<70726, 70726>>,
     <<70750, 70750>>, <<70835, 70840>>, <<70842, 70842>>, <<70847, 70848>>, <<70850, 70851>>, <<71090, 71093>>,
     <<71100, 71101>>, <<71103, 71104>>, <<71132, 71133>>, <<71219, 71226>>, <<71229, 71229>>, <<71231, 71232>>,
     <<71339, 71339>>, <<71341, 71341>>, <<71344, 71349>>, <<71351, 71351>>, <<71453, 71453>>, <<71455, 71455>>,
     <<71458, 71461>>, <<71463, 71467>>, <<71727, 71735>>, <<71737, 71738>>, <<71995, 71996>>, <<71998, 71998>>,
     <<72003, 72003>>, <<72148, 72151>>, <<72154, 72155>>, <<72160, 72160>>, <<72193, 72202>>, <<72243, 72248>>,
     <<72251, 72254>>, <<72263, 72263>>, <<72273, 72278>>, <<72281, 72283>>, <<72330, 72342>>, <<72344, 72345>>,
     <<72544, 72544>>, <<72546, 72548>>, <<72550, 72550>>, <<72752, 72758>>, <<72760, 72765>>, <<72767, 72767>>,
     <<72850, 72871>>, <<72874, 72880>>, <<72882, 72883>>, <<72885, 72886>>, <<73009, 73014>>, <<73018, 73018>>,
     <<73020, 73021>>, <<73023, 73029>>, <<73031, 73031>>, <<73104, 73105>>, <<73109, 73109>>, <<73111, 73111>>,
     <<73177, 73177>>, <<73459, 73460>>, <<73472, 73473>>, <<73526, 73530>>, <<73536, 73536>>, <<73538, 73538>>,
     <<73562, 73562>>, <<78896, 78912>>, <<78919, 78933>>, <<90398, 90409>>, <<90413, 90415>>, <<92912, 92916>>,
     <<92976, 92982>>, <<92992, 92995>>, <<93504, 93506>>, <<93547, 93548>>, <<94031, 94031>>, <<94095, 94111>>,
     <<94176, 94177>>, <<94179, 94180>>, <<94194, 94195>>, <<110576, 110579>>, <<110581, 110587>>, <<110589, 110590>>,
     <<113821, 113822>>, <<113824, 113827>>, <<118528, 118573>>, <<118576, 118598>>, <<119143, 119145>>, <<119155, 119170>>,
     <<119173, 119179>>, <<119210, 119213>>, <<119362, 119364>>, <<121344, 121398>>, <<121403, 121452>>, <<121461, 121461>>,
     <<121476, 121476>>, <<121499, 121503>>, <<121505, 121519>>, <<122880, 122886>>, <<122888, 122904>>, <<122907, 122913>>,
     <<122915, 122916>>, <<122918, 122922>>, <<122928, 122989>>, <<123023, 123023>>, <<123184, 123197>>, <<123566, 123566>>,
     <<123628, 123631>>, <<124139, 124143>>, <<124398, 124399>>, <<124643, 124643>>, <<124646, 124646>>, <<124654, 124655>>,
     <<124661, 124661>>, <<124671, 124671>>, <<125136, 125142>>, <<125252, 125259>>, <<127995, 127999>>, <<917505, 917505>>,
     <<917536, 917631>>, <<917760, 917999>>
  >>

RECURSIVE LastAtMost(_, _, _, _)
\* the greatest index in lo..hi of a range of the table whose first code
\* point is at most c, or lo - 1 when there is none; the ranges of a table
\* are disjoint and in ascending order
LastAtMost(ranges, c, lo, hi) ==
  IF lo > hi THEN lo - 1
  ELSE LET mid == (lo + hi) \div 2
       IN IF ranges[mid][1] <= c
            THEN LastAtMost(ranges, c, mid + 1, hi)
            ELSE LastAtMost(ranges, c, lo, mid - 1)

\* the index of the range of the table that spans code point c, or 0
RangeOf(ranges, c) ==
  LET r == LastAtMost(ranges, c, 1, Len(ranges))
  IN IF r > 0 /\ c <= ranges[r][2] THEN r ELSE 0

Cased(c) == RangeOf(CasedRanges, c) > 0

CaseIgnorable(c) == RangeOf(CaseIgnorableRanges, c) > 0

\* the simple lower-case mapping of code point c
LowerCodePoint(c) ==
  LET r == RangeOf(LowerRanges, c)
  IN IF r > 0 /\ (c - LowerRanges[r][1]) % LowerRanges[r][3] = 0
       THEN LowerRanges[r][4] + (c - LowerRanges[r][1])
       ELSE c

IsHighSurrogate(u) == 55296 <= u /\ u <= 56319

IsLowSurrogate(u) == 56320 <= u /\ u <= 57343

RECURSIVE CodePoints(_)
\* the code points of a string of code units: a high surrogate followed by
\* a low one is one code point, a surrogate on its own is itself
CodePoints(s) ==
  IF s = <<>> THEN <<>>
  ELSE IF Len(s) >= 2 /\ IsHighSurrogate(s[1]) /\ IsLowSurrogate(s[2])
    THEN <<65536 + ((s[1] - 55296) * 1024) + (s[2] - 56320)>>
           \o CodePoints(Tail(Tail(s)))
  ELSE <<Head(s)>> \o CodePoints(Tail(s))

RECURSIVE CodeUnits(_)
\* the code units of a sequence of code points
CodeUnits(cps) ==
  IF cps = <<>> THEN <<>>
  ELSE (IF Head(cps) >= 65536
          THEN <<55296 + ((Head(cps) - 65536) \div 1024),
                 56320 + ((Head(cps) - 65536) % 1024)>>
          ELSE <<Head(cps)>>)
       \o CodeUnits(Tail(cps))

RECURSIVE FollowedByCased(_, _, _)
\* from position i in direction dir (1 or -1), past any case-ignorable code
\* points, the next code point is cased
FollowedByCased(cps, i, dir) ==
  IF i < 1 \/ i > Len(cps) THEN FALSE
  ELSE IF CaseIgnorable(cps[i]) THEN FollowedByCased(cps, i + dir, dir)
  ELSE Cased(cps[i])

\* the capital sigma at position i ends a word: a cased letter comes before
\* it and none after it
FinalSigma(cps, i) ==
  /\ ~FollowedByCased(cps, i + 1, 1)
  /\ FollowedByCased(cps, i - 1, 0 - 1)

\* the lower case of the code point at position i, as the code points
\* toLowerCase puts in its place: the dotted capital I (304) becomes i and
\* COMBINING DOT ABOVE, the capital sigma (931) the final or the medial small
\* sigma, any other code point its simple mapping
LowerChar(cps, i) ==
  IF cps[i] = 304 THEN <<105, 775>>
  ELSE IF cps[i] = 931 THEN <<IF FinalSigma(cps, i) THEN 962 ELSE 963>>
  ELSE <<LowerCodePoint(cps[i])>>

RECURSIVE LowerFrom(_, _)
LowerFrom(cps, i) ==
  IF i > Len(cps) THEN <<>> ELSE LowerChar(cps, i) \o LowerFrom(cps, i + 1)

\* s.toLowerCase()
toLowerCase(s) == CodeUnits(LowerFrom(CodePoints(s), 1))

startsWith(s, p) ==
  /\ Len(p) <= Len(s)
  /\ SubSeq(s, 1, Len(p)) = p

includes(s, sub) ==
  \E i \in 1..(Len(s) + 1) :
    /\ i + Len(sub) - 1 <= Len(s)
    /\ SubSeq(s, i, i + Len(sub) - 1) = sub

(***************************************************************************)
(* The page: the elements the listeners see.  type / name / autocomplete   *)
(* are the DOM properties isSensitiveField reads ("" when absent).         *)
(***************************************************************************)
Elements ==
  [ email |-> [tagName |-> "INPUT", type |-> Units(<<"t","e","x","t">>),
               name |-> Units(<<"e","m","a","i","l">>), autocomplete |-> <<>>],
    pwd   |-> [tagName |-> "INPUT", type |-> Units(<<"p","a","s","s","w","o","r","d">>),
               name |-> Units(<<"p","w">>), autocomplete |-> <<>>],
    card  |-> [tagName |-> "INPUT", type |-> Units(<<"t","e","x","t">>),
               name |-> Units(<<"C","a","r","d","N","o">>), autocomplete |-> <<>>],
    ccexp |-> [tagName |-> "INPUT", type |-> Units(<<"t","e","x","t">>),
               name |-> Units(<<"e","x","p">>), autocomplete |-> Units(<<"c","c","-","e","x","p">>)],
    note  |-> [tagName |-> "DIV", type |-> <<>>, name |-> <<>>, autocomplete |-> <<>>] ]

ElementIds == DOMAIN Elements

\* document.querySelectorAll('input, textarea'), in document order
PageInputs == <<"email", "pwd", "card", "ccexp">>

\* a null or undefined target
NoElement == [absent |-> TRUE]

\* `!el`
IsAbsent(el) == "absent" \in DOMAIN el

\* isSensitiveField(el) of the standalone script src/src/index.js: its
\* vocabulary of names has neither secret nor token
isSensitiveFieldStandalone(el) ==
  IF IsAbsent(el) THEN FALSE
  ELSE LET type == toLowerCase(el.type)
           name == toLowerCase(el.name)
           autocomplete == toLowerCase(el.autocomplete)
       IN \/ type = Units(<<"p","a","s","s","w","o","r","d">>)
          \/ type = Units(<<"h","i","d","d","e","n">>)
          \/ includes(name, Units(<<"c","a","r","d">>))
          \/ includes(name, Units(<<"c","v","v">>))
          \/ includes(name, Units(<<"p","a","s","s","w","o","r","d">>))
          \/ includes(name, Units(<<"s","s","n">>))
          \/ startsWith(autocomplete, Units(<<"c","c","-">>))

\* Chyavan.isSensitiveField(el); el is an element (its properties) or
\* NoElement
isSensitiveField(el) ==
  IF IsAbsent(el) THEN FALSE
  ELSE LET type == toLowerCase(el.type)
           name == toLowerCase(el.name)
           autocomplete == toLowerCase(el.autocomplete)
       IN \/ type = Units(<<"p","a","s","s","w","o","r","d">>)
          \/ type = Units(<<"h","i","d","d","e","n">>)
          \/ includes(name, Units(<<"c","a","r","d">>))
          \/ includes(name, Units(<<"c","v","v">>))
          \/ includes(name, Units(<<"p","a","s","s","w","o","r","d">>))
          \/ includes(name, Units(<<"s","s","n">>))
          \/ includes(name, Units(<<"s","e","c","r","e","t">>))
          \/ includes(name, Units(<<"t","o","k","e","n">>))
          \/ startsWith(autocomplete, Units(<<"c","c","-">>))

\* isSensitiveField over the elements of this page, evaluated once
SensitiveElements == {el \in ElementIds : isSensitiveField(Elements[el])}

(***************************************************************************)
(* sanitizeText and the scroll percentage.                                 *)
(***************************************************************************)
\* /^\d+$/.test(text)
OnlyDigits(text) ==
  /\ text # <<>>
  /\ \A i \in 1..Len(text) : \E d \in 1..Len(DigitChars) : DigitChars[d] = text[i]

RECURSIVE Decimal(_)
\* `${n}`: the decimal digits of a natural number
Decimal(n) ==
  IF n < 10 THEN <<DigitChars[n + 1]>>
  ELSE Decimal(n \div 10) \o <<DigitChars[(n % 10) + 1]>>

\* a sanitizeText that lets text that is not all digits through
sanitizeTextEcho(text) ==
  IF text = <<>> THEN <<>>
  ELSE IF OnlyDigits(text)
    THEN <<"[">> \o Decimal(Len(text)) \o <<" ","d","i","g","i","t","s","]">>
  ELSE text

\* Chyavan.sanitizeText(text)
sanitizeText(text) ==
  IF text = <<>> THEN <<>>
  ELSE IF OnlyDigits(text)
    THEN <<"[">> \o Decimal(Len(text)) \o <<" ","d","i","g","i","t","s","]">>
  ELSE <<"[">> \o Decimal(Len(text))
         \o <<" ","c","h","a","r","a","c","t","e","r","s","]">>

\* sanitizeText(text) of the standalone script src/src/index.js
sanitizeTextStandalone(text) ==
  IF text = <<>> THEN <<>>
  ELSE IF OnlyDigits(text)
    THEN <<"T","y","p","e","d"," ","[">> \o Decimal(Len(text))
           \o <<"]"," ","d","i","g","i","t","s">>
  ELSE <<"T","y","p","e","d"," ","[">> \o Decimal(Len(text))
         \o <<"]"," ","c","h","a","r","a","c","t","e","r","s">>

\* Math.round(num / den) for den > 0: the nearest integer, halves upwards
Round(num, den) == (2 * num + den) \div (2 * den)

RECURSIVE Exponent(_, _)
\* the binary exponent of num / den > 0: the e with 2^e <= num / den < 2^(e+1)
Exponent(num, den) ==
  IF num < den THEN Exponent(2 * num, den) - 1
  ELSE IF num \div 2 >= den THEN Exponent(num \div 2, den) + 1
  ELSE 0

RECURSIVE PowerOfTwoMod200(_)
\* 2^n modulo 200
PowerOfTwoMod200(n) == IF n = 0 THEN 1 ELSE (2 * PowerOfTwoMod200(n - 1)) % 200

\* The doubles of `(scrollTop / maxScrollTop) * 100` when the quotient is
\* m / 200 with m odd, so that the exact product is the half m / 2.  The
\* quotient is rounded to 53 bits: scaled by 2^s to an integer of 53 bits it
\* is off by r / 200, r the residue of m * 2^s nearest 0.  The product,
\* off by r / 2^(s+1) before it is rounded in turn, is the double next to
\* m / 2 when that is more than half the distance between doubles there, and
\* m / 2 itself otherwise.  The result is -1 when the product is the double
\* below m / 2, 1 when it is the double above, 0 when it is m / 2.
HalfError(m) ==
  LET e == Exponent(m, 2)
      q == Exponent(m, 200)
      t == ((m % 200) * PowerOfTwoMod200(52 - q)) % 200
      r == IF t < 100 THEN 0 - t ELSE 200 - t
  IN IF e - q = 6 /\ r < 0 - 64 THEN 0 - 1
     ELSE IF e - q = 6 /\ r > 64 THEN 1
     ELSE 0

\* `Math.round((scrollTop / maxScrollTop) * 100)` with scrollTop >= 0 and
\* maxScrollTop > 0, in double arithmetic: the exact quotient rounded,
\* halves upwards, unless the exact product is a half and its double falls
\* below it
RoundedShare(scrollTop, maxScrollTop) ==
  LET m == (200 * scrollTop) \div maxScrollTop
  IN IF (200 * scrollTop) % maxScrollTop = 0 /\ m % 2 = 1 /\ HalfError(m) < 0
       THEN (m - 1) \div 2
       ELSE Round(100 * scrollTop, maxScrollTop)

\* the same with a negative divisor -den: the product is negative, and a
\* half is rounded towards zero unless its double falls beyond it
RoundedNegativeShare(scrollTop, den) ==
  LET m == (200 * scrollTop) \div den
  IN IF (200 * scrollTop) % den = 0 /\ m % 2 = 1 /\ HalfError(m) > 0
       THEN 0 - ((m + 1) \div 2)
       ELSE Round((0 - 100) * scrollTop, den)

\* `Math.round((scrollTop / maxScrollTop) * 100)` with scrollTop >= 0: a
\* division by zero gives NaN (0 / 0) or Infinity, and Math.round keeps them.
\* The result is [kind, value]: kind "number" with its value, or "NaN" or
\* "Infinity" with value 0.
scrollPercentage(scrollTop, maxScrollTop) ==
  IF maxScrollTop = 0
    THEN [kind |-> (IF scrollTop = 0 THEN "NaN" ELSE "Infinity"), value |-> 0]
  ELSE IF maxScrollTop > 0
    THEN [kind |-> "number", value |-> RoundedShare(scrollTop, maxScrollTop)]
  ELSE [kind |-> "number", value |-> RoundedNegativeShare(scrollTop, 0 - maxScrollTop)]

\* the listeners' calls of isSensitiveField
IsSensitive(el) == el \in SensitiveElements

(***************************************************************************)
(* Configuration (this.config) and endpoint resolution.                    *)
(*   mode        "console" | "hosted" | "self-hosted"                      *)
(*   apiKey      TRUE when the caller supplied a key                       *)
(*   apiEndpoint Null, "user" (a caller-supplied URL) or "hosted" (the     *)
(*               keyed https://api.chyavan.io/track?key=... URL)           *)
(*   bufferSize  the auto-flush threshold                                  *)
(*   onFlush     TRUE when the caller supplied a hook                      *)
(***************************************************************************)
Modes == {"console", "hosted", "self-hosted"}

\* `bufferSize: 20` and `flushInterval: 5000` of the constructor's defaults
DefaultBufferSize == 20
DefaultFlushInterval == 5000

\* the defaults the constructor spreads the caller's options over
Defaults ==
  [mode |-> "console", apiKey |-> FALSE, apiEndpoint |-> Null,
   bufferSize |-> DefaultBufferSize, flushInterval |-> DefaultFlushInterval,
   onFlush |-> FALSE]

\* { ...a, ...b }
Merge(cfg, newConfig) ==
  [f \in DOMAIN cfg |-> IF f \in DOMAIN newConfig THEN newConfig[f] ELSE cfg[f]]

getEndpoint(cfg) ==
  IF cfg.mode = "console" THEN Null
  ELSE IF cfg.mode = "self-hosted" /\ cfg.apiEndpoint # Null THEN cfg.apiEndpoint
  ELSE IF cfg.mode = "hosted" /\ cfg.apiKey THEN "hosted"
  ELSE IF cfg.apiEndpoint # Null THEN cfg.apiEndpoint
  ELSE Null

\* a tracker that treats console mode like a network mode
ConsoleModeIgnored(cfg) == FALSE

\* `this.config.mode === 'console'`
ConsoleMode(cfg) == cfg.mode = "console"

\* the options a caller may pass to the constructor or to updateConfig
Options ==
  [mode : Modes, apiKey : BOOLEAN, apiEndpoint : {Null, "user"},
   bufferSize : 1..MaxBufferSize, flushInterval : {DefaultFlushInterval},
   onFlush : BOOLEAN]

\* this.config as the constructor leaves it: the defaults, the caller's
\* options spread over them, and the endpoint resolved
Construct(options) ==
  LET merged == Merge(Defaults, options)
  IN [merged EXCEPT !.apiEndpoint = getEndpoint(merged)]

\* The constructor options the delivery specifications start from, one for
\* each way getEndpoint resolves: console, hosted with a key, hosted without
\* a key (no endpoint), self-hosted with the caller's endpoint.
CtorOptions ==
  {o \in Options : /\ (o.apiEndpoint = "user") <=> (o.mode = "self-hosted")
                   /\ o.apiKey => o.mode = "hosted"}

(***************************************************************************)
(* State.                                                                  *)
(***************************************************************************)
VARIABLES
  config,             \* this.config, apiEndpoint already resolved
  eventBuffer,        \* this.eventBuffer: sequence of events
  isTrackingEnabled,  \* this.isTrackingEnabled
  flushTimer,         \* TRUE when the setInterval of startFlushTimer is armed
  listeners,          \* this.listeners: sequence of [element, event]
  observers,          \* number of MutationObservers held in this.observers
  sessionId,          \* "session" or Null
  flights,            \* flush() calls suspended at `await this.sendEvents(events)`
                      \* whose fetch has not ended
  microtasks,         \* flush() calls suspended there on a promise that is
                      \* already settled, in the order they will resume
  keyDebounce,        \* pending timeouts of the debouncedLog closures
  scrollDebounce,     \* pending timeouts of the debounced scrollHandler closures
  nextId,             \* identity of the next event object track() creates
  env,                \* environment: network TRUE once every request is answered,
                      \* hits the requests the receiver counts in its window
                      \* 2xx, hook TRUE once config.onFlush no longer throws
  hist,               \* history: has flush() been called, has the hook failed
  obs,                \* what the last operation did
  intervals,          \* number of setInterval timers armed and not cleared
  timeline,           \* one debounced function observed against the clock
  probe               \* the last call of a pure helper: its input and its result

vars == <<config, eventBuffer, isTrackingEnabled, flushTimer, listeners, observers,
          sessionId, flights, microtasks, keyDebounce, scrollDebounce, nextId, env,
          hist, obs,
          intervals,
          timeline, probe>>

lifeVars == <<isTrackingEnabled, flushTimer, intervals, listeners, observers, sessionId>>

\* An event object: id is its identity (creation order), target the element
\* a listener derived it from (Null for a direct track() call).
Ids(events) == {events[i].id : i \in 1..Len(events)}

\* the report of the constructor
NewReport ==
  [op |-> "new", beat |-> 0, accepted |-> FALSE, flushes |-> 0, batch |-> <<>>,
   hook |-> "none", sent |-> FALSE, outcome |-> "none", consent |-> "none",
   threw |-> FALSE, acted |-> FALSE, promise |-> "none", fault |-> "none"]

\* the report of one operation
Report(op) == [NewReport EXCEPT !.op = op]

\* beat alternates over flushes whose hook throws, so that a tick whose hook
\* throws again, and so changes nothing else, is still a step
Beat(hook) == IF hook = "threw" THEN 1 - obs.beat ELSE 0

(***************************************************************************)
(* setupEventListeners / cleanup / enable.                                 *)
(***************************************************************************)
RECURSIVE InputListeners(_)
\* the forEach of setupKeystrokeTracking: one listener per non-sensitive input
InputListeners(inputs) ==
  IF inputs = <<>> THEN <<>>
  ELSE (IF IsSensitive(Head(inputs)) THEN <<>>
        ELSE <<[element |-> Head(inputs), event |-> "input"]>>)
       \o InputListeners(Tail(inputs))

\* the listeners setupKeystrokeTracking pushes on this page
PageInputListeners == InputListeners(PageInputs)

\* listeners pushed by setupKeystrokeTracking, setupMouseTracking, setupScrollTracking
setupEventListeners(ls) ==
  ls \o PageInputListeners
     \o <<[element |-> "document", event |-> "click"]>>
     \o <<[element |-> "window", event |-> "scroll"]>>

HasListener(el, ev) ==
  \E i \in 1..Len(listeners) : listeners[i] = [element |-> el, event |-> ev]

\* a new debouncedLog closure: the timeout of the previous closure stays
\* pending; stale is the bag of the targets of the timeouts earlier closures
\* left, one copy for each timeout
NewDebounce(d) ==
  [cur |-> Null, superseded |-> Null,
   stale |-> IF d.cur = Null THEN d.stale ELSE d.stale (+) SetToBag({d.cur})]

\* The same for the debounced scrollHandler, whose closure
\* setupScrollTracking makes: cur says whether the timeout of the latest
\* closure is pending, stale counts the pending timeouts of earlier ones.
NewScrollDebounce(d) == [cur |-> FALSE, stale |-> d.stale + (IF d.cur THEN 1 ELSE 0)]

\* enable() without its `if (this.isTrackingEnabled) return;`
AlreadyEnabledIgnored(flag) == FALSE

\* `if (this.isTrackingEnabled) return;` of enable()
AlreadyEnabled(flag) == flag

\* `if (!this.isTrackingEnabled) return;` of disable()
AlreadyDisabled(flag) == ~flag

\* startFlushTimer(): setInterval arms one more interval
startFlushTimer(iv) == iv + 1

\* The state enable() leaves past its guard, as a record of the lifecycle
\* fields it writes.  setupThrows: creating or attaching the MutationObserver
\* throws (setupKeystrokeTracking, after the input listeners were pushed);
\* the flag is set by then, and neither the observer, the click and scroll
\* listeners nor the timer follow.
EnableResult(cfg, ls, ob, timer, iv, setupThrows) ==
  IF setupThrows
    THEN [isTrackingEnabled |-> TRUE,
          listeners |-> ls \o PageInputListeners,
          observers |-> ob,
          flushTimer |-> timer,
          intervals |-> iv,
          threw |-> TRUE]
    ELSE [isTrackingEnabled |-> TRUE,
          listeners |-> setupEventListeners(ls),
          observers |-> ob + 1,
          flushTimer |-> IF ~ConsoleMode(cfg) THEN TRUE ELSE timer,
          intervals |-> IF ~ConsoleMode(cfg) THEN startFlushTimer(iv) ELSE iv,
          threw |-> FALSE]

\* no helper called yet
NoProbe == [fn |-> "none", source |-> "none", input |-> Null, output |-> Null]

\* The clock at 0 and no debounced function yet.  delay is the delay of the
\* debounced function (0 before debounce() was called), timeout the closure's
\* `timeout` variable (the id of the last timer it set, 0 while undefined),
\* pending the timers set and neither fired nor cleared, calls and emitted
\* the calls of the debounced function and of fn so far.
NewTimeline ==
  [now |-> 0, delay |-> 0, timeout |-> 0, pending |-> {}, calls |-> <<>>,
   emitted |-> <<>>]

(***************************************************************************)
(* Construction: constructor + init().                                     *)
(***************************************************************************)
\* what config.consentCheck() does when init() calls it
ConsentAnswers == {"granted", "denied", "throws"}

\* an init() that does not ask for consent
InitEnablesAlways(cfg, consent) == TRUE

\* init() calls enable() in console mode, or when consentCheck() returns true
InitEnables(cfg, consent) == cfg.mode = "console" \/ consent = "granted"

\* the state the constructor leaves, called with `options`
InitFrom(options, consent, setupThrows) ==
    LET cfg == Construct(options)
        en  == EnableResult(cfg, <<>>, 0, FALSE, 0, setupThrows)
    IN /\ config = cfg
       /\ eventBuffer = <<>>
       /\ IF InitEnables(cfg, consent)
            THEN /\ isTrackingEnabled = en.isTrackingEnabled
                 /\ listeners = en.listeners
                 /\ observers = en.observers
                 /\ flushTimer = en.flushTimer
                 /\ intervals = en.intervals
                 /\ obs = [NewReport EXCEPT !.consent = consent, !.threw = en.threw]
            ELSE /\ isTrackingEnabled = FALSE
                 /\ listeners = <<>>
                 /\ observers = 0
                 /\ flushTimer = FALSE
                 /\ intervals = 0
                 /\ obs = [NewReport EXCEPT !.consent = consent,
                                            !.threw = (consent = "throws")]
       /\ sessionId = "session"
       /\ flights = {}
       /\ microtasks = <<>>
       /\ keyDebounce = [cur |-> Null, superseded |-> Null, stale |-> EmptyBag]
       /\ scrollDebounce = [cur |-> FALSE, stale |-> 0]
       /\ nextId = 1
       /\ env = [network |-> FALSE, hook |-> FALSE, hits |-> 0]
       /\ hist = [flushCalled |-> FALSE, supplied |-> Merge(Defaults, options).apiEndpoint]
       /\ timeline = NewTimeline
       /\ probe = NoProbe

Init ==
  \E opts \in CtorOptions, consent \in ConsentAnswers, setupThrows \in BOOLEAN :
    InitFrom(opts, consent, setupThrows)

(***************************************************************************)
(* flush() and sendEvents().                                               *)
(***************************************************************************)
\* flush() without its empty-buffer return
BufferIsEmptyNever(buf) == FALSE

\* `if (this.eventBuffer.length === 0) return;`
BufferIsEmpty(buf) == Len(buf) = 0

\* `this.eventBuffer.unshift(...events)`
Requeue(events, buf) == events \o buf

\* `>` in place of `>=`
ThresholdExceeded(len, size) == len > size

\* `if (this.eventBuffer.length >= this.config.bufferSize)` of track()
ThresholdReached(len, size) == len >= size

\* How a fetch may end: the receiver answers 2xx with a JSON body, 2xx with
\* no body or one that is not JSON, a non-2xx status, or fetch itself rejects.
Outcomes == {"network_error", "non_2xx", "2xx_no_json", "2xx_json"}

\* response.ok
ResponseOk(outcome) == outcome \in {"2xx_json", "2xx_no_json"}

\* sendEvents without its `if (!response.ok) throw`
SendRejectsStatusIgnored(outcome) ==
  \/ outcome = "network_error"
  \/ outcome = "2xx_no_json"

\* sendEvents' promise rejects: fetch rejected, `!response.ok` threw, or the
\* returned response.json() promise rejected
SendRejects(outcome) ==
  \/ outcome = "network_error"
  \/ ~ResponseOk(outcome)
  \/ outcome = "2xx_no_json"

\* the drain forgetting to empty the buffer
DrainedKept(buf) == buf

\* `this.eventBuffer = [];` after `const events = [...this.eventBuffer];`
Drained(buf) == <<>>

\* config.onFlush called outside the try block: the batch is lost
HookFailureLost(events) == <<>>

\* the catch block of flush(), entered because config.onFlush threw: the
\* buffer was emptied a moment ago and gets the batch back
HookFailure(events) == Requeue(events, Drained(events))

\* The data of an event are the object the caller gave to track(), and the
\* two places that serialise them can tell apart: the console table calls
\* JSON.stringify(e.data), and a toJSON of the data gets the key '', while
\* sendEvents calls JSON.stringify({ events }), and toJSON gets the key
\* 'data'.  The data of an event are therefore described by what each of the
\* two does with them as they are now: table says whether
\* `JSON.stringify(e.data).substring(0, 50)` returns (JSON.stringify neither
\* throws nor gives undefined, which has no substring method), body whether
\* JSON.stringify returns on them inside the request body (what it turns
\* into undefined there is left out).
\* Strings, numbers and objects of them: both return.
PlainData == [table |-> TRUE, body |-> TRUE]

\* `JSON.stringify({ events })` of sendEvents returns
Serialisable(events) ==
  \A i \in 1..Len(events) : events[i].data.body

\* `JSON.stringify(e.data).substring(0, 50)` of the console table returns
\* for every event
Displayable(events) ==
  \A i \in 1..Len(events) : events[i].data.table

\* flush() from its first line up to its first suspension (or its return),
\* run on buffer `buf`; hookThrows says whether config.onFlush, if called,
\* throws.  batch is the drained `events` (<<>> when flush returned at once),
\* sent says whether fetch was called with it.
\* fault says where JSON.stringify threw: "display" in the console table,
\* outside the try block, or "body" in sendEvents, inside it.
\* awaited says how the promise of sendEvents stands when flush() is
\* suspended at `await this.sendEvents(events)`: "pending" when fetch was
\* called, "rejected" when JSON.stringify threw on the body, "resolved" when
\* sendEvents returned at once for want of an endpoint, and "none" when
\* flush() did not get that far.  Suspended, flush() has emptied the buffer
\* and has not reached its catch block.
FlushRun(buf, cfg, hookThrows) ==
  IF BufferIsEmpty(buf)
    THEN [buffer |-> buf, drained |-> FALSE, batch |-> <<>>, hook |-> "none",
          sent |-> FALSE, fault |-> "none", awaited |-> "none"]
  ELSE IF ConsoleMode(cfg)
    THEN [buffer |-> Drained(buf), drained |-> TRUE, batch |-> buf, hook |-> "none",
          sent |-> FALSE, fault |-> IF Displayable(buf) THEN "none" ELSE "display",
          awaited |-> "none"]
  ELSE IF cfg.onFlush /\ hookThrows
    THEN [buffer |-> HookFailure(buf), drained |-> TRUE, batch |-> buf,
          hook |-> "threw", sent |-> FALSE, fault |-> "none", awaited |-> "none"]
  ELSE IF cfg.apiEndpoint = Null
    THEN [buffer |-> Drained(buf), drained |-> TRUE, batch |-> buf,
          hook |-> IF cfg.onFlush THEN "returned" ELSE "none", sent |-> FALSE,
          fault |-> "none", awaited |-> "resolved"]
  ELSE IF ~Serialisable(buf)
    THEN [buffer |-> Drained(buf), drained |-> TRUE, batch |-> buf,
          hook |-> IF cfg.onFlush THEN "returned" ELSE "none", sent |-> FALSE,
          fault |-> "body", awaited |-> "rejected"]
  ELSE [buffer |-> Drained(buf), drained |-> TRUE, batch |-> buf,
        hook |-> IF cfg.onFlush THEN "returned" ELSE "none", sent |-> TRUE,
        fault |-> "none", awaited |-> "pending"]

\* The in-flight calls after a flush().  A flight keeps its batch (the local
\* `events`), and two history fields: mark, the id the next new event will
\* get, and alone, FALSE once any other flush held a batch or
\* destroy() cleared it while this one was in flight.
FlightsAfter(r, mark) ==
  IF ~r.drained THEN flights
  ELSE {[f EXCEPT !.alone = FALSE] : f \in flights}
       \cup (IF r.sent
               THEN {[batch |-> r.batch, mark |-> mark,
                      alone |-> flights = {} /\ microtasks = <<>>]}
               ELSE {})

\* a flush() whose try block has no catch
PromiseWithoutCatch == "rejected"

\* the promise of a flush() whose try block threw: the catch block logs,
\* requeues and falls through to the end of the function
PromiseAfterCatch == "resolved"

\* the promise flush() returned, once run r reached its first suspension
FlushPromise(r) ==
  IF r.fault = "display" THEN "rejected"
  ELSE IF r.hook = "threw" THEN PromiseAfterCatch
  ELSE IF r.awaited # "none" THEN "pending"
  ELSE "resolved"

\* The microtask queue after a flush(): suspended on a promise that is
\* already settled, flush() resumes in a microtask, once the code that
\* called it has run to its end.  rejected says whether it resumes in its
\* catch block.
MicrotasksAfter(r) ==
  IF r.awaited \in {"resolved", "rejected"}
    THEN Append(microtasks, [batch |-> r.batch, rejected |-> r.awaited = "rejected"])
    ELSE microtasks

\* flush() called by operation op on buffer buf
Flush(op, buf, mark, accepted, hookThrows) ==
  LET r == FlushRun(buf, config, hookThrows)
  IN /\ eventBuffer' = r.buffer
     /\ flights' = FlightsAfter(r, mark)
     /\ microtasks' = MicrotasksAfter(r)
     /\ hist' = [hist EXCEPT !.flushCalled = TRUE]
     /\ obs' = [Report(op) EXCEPT !.accepted = accepted, !.flushes = 1,
                                  !.batch = r.batch, !.hook = r.hook, !.sent = r.sent,
                                  !.fault = r.fault,
                                  !.beat = Beat(r.hook), !.promise = FlushPromise(r)]

\* track() without its `if (!this.isTrackingEnabled) return;`
TrackingOffIgnored(flag) == FALSE

\* `if (!this.isTrackingEnabled) return;` of track()
TrackingOff(flag) == ~flag

\* track(type, data) in a run of at most `limit` accepted events
TrackWithin(limit, op, type, target, data, hookThrows) ==
  IF TrackingOff(isTrackingEnabled)
    THEN /\ obs' = Report(op)
         /\ UNCHANGED <<eventBuffer, flights, microtasks, nextId, hist>>
    ELSE /\ nextId <= limit
         /\ nextId' = nextId + 1
         /\ LET event == [id |-> nextId, type |-> type, target |-> target,
                          data |-> data]
                buf   == Append(eventBuffer, event)
            IN IF ThresholdReached(Len(buf), config.bufferSize)
                 THEN Flush(op, buf, nextId + 1, TRUE, hookThrows)
                 ELSE /\ eventBuffer' = buf
                      /\ obs' = [Report(op) EXCEPT !.accepted = TRUE]
                      /\ UNCHANGED <<flights, microtasks, hist>>

\* track(type, data) from a listener, whose data are strings and numbers
Track(op, type, target, hookThrows) ==
  TrackWithin(MaxEvents, op, type, target, PlainData, hookThrows)

\* whether config.onFlush throws when called: anything, until it has healed
HookChoices == IF env.hook THEN {FALSE} ELSE BOOLEAN

\* The data a caller passes to track(): plain data; data on which both
\* serialisations fail (a cycle, a BigInt); data only the table fails on (a
\* function or a symbol, which JSON.stringify turns into undefined, or a
\* toJSON that throws unless its key is 'data'); data only the body fails
\* on (a toJSON that throws when its key is 'data').
DataKinds == [table : BOOLEAN, body : BOOLEAN]

\* track(type, data) from a caller
TrackCall ==
  /\ \E data \in DataKinds, hookThrows \in HookChoices :
       /\ data = PlainData \/ nextId <= MaxOddData
       /\ TrackWithin(MaxEvents, "track", "custom", Null, data, hookThrows)
  /\ UNCHANGED <<config, probe, timeline, lifeVars, keyDebounce, scrollDebounce, env>>

\* the events with the data of the event `id` replaced
WithData(events, id, data) ==
  [i \in 1..Len(events) |->
     IF events[i].id = id /\ events[i].type = "custom"
       THEN [events[i] EXCEPT !.data = data]
       ELSE events[i]]

\* The page alters an object it gave to track() (`dat.self = dat`), or the
\* toJSON of that object answers differently from now on: the event keeps a
\* reference to the object (`data` in the event literal of track()), so the
\* data change wherever the event is held, in the buffer or in the batch of
\* a suspended flush.
DataChanges ==
  /\ \E id \in 1..MaxOddData, data \in DataKinds :
       /\ eventBuffer' = WithData(eventBuffer, id, data)
       /\ flights' = {[f EXCEPT !.batch = WithData(@, id, data)] : f \in flights}
       /\ microtasks' = [i \in 1..Len(microtasks) |->
                           [microtasks[i] EXCEPT !.batch = WithData(@, id, data)]]
  /\ <<eventBuffer', flights', microtasks'>> # <<eventBuffer, flights, microtasks>>
  /\ obs' = Report("data")
  /\ UNCHANGED <<config, probe, timeline, lifeVars, keyDebounce, scrollDebounce, nextId,
                 env, hist>>

\* the event loop starts a task (a timer callback, the completion of a
\* fetch) only when the microtask queue is empty
TaskMayStart == microtasks = <<>>

\* the setInterval callback of startFlushTimer
Tick ==
  /\ TaskMayStart
  /\ intervals > 0
  /\ \E hookThrows \in HookChoices : Flush("tick", eventBuffer, nextId, FALSE, hookThrows)
  /\ UNCHANGED <<config, probe, timeline, lifeVars, keyDebounce, scrollDebounce, nextId, env>>

\* a caller's flush()
FlushCall ==
  /\ \E hookThrows \in HookChoices : Flush("flush", eventBuffer, nextId, FALSE, hookThrows)
  /\ UNCHANGED <<config, probe, timeline, lifeVars, keyDebounce, scrollDebounce, nextId, env>>

\* flush() resumes after its await, the fetch of flight f having ended with
\* `outcome`
Resume(f, outcome) ==
  /\ TaskMayStart
  /\ flights' = flights \ {f}
  /\ eventBuffer' = IF SendRejects(outcome) THEN Requeue(f.batch, eventBuffer)
                    ELSE eventBuffer
  /\ obs' = [Report("settle") EXCEPT
                !.batch = f.batch, !.outcome = outcome,
                !.promise = IF SendRejects(outcome) THEN PromiseAfterCatch
                            ELSE "resolved"]
  /\ UNCHANGED <<config, probe, timeline, lifeVars, microtasks, keyDebounce, scrollDebounce, nextId,
                 hist>>

\* flush() resumes in a microtask after `await this.sendEvents(events)`: in
\* its catch block, which puts the batch back, when sendEvents rejected, and
\* past the await otherwise
RunMicrotask ==
  /\ microtasks # <<>>
  /\ LET m == Head(microtasks)
     IN /\ microtasks' = Tail(microtasks)
        /\ eventBuffer' = IF m.rejected THEN Requeue(m.batch, eventBuffer)
                          ELSE eventBuffer
        /\ obs' = [Report("resume") EXCEPT
                      !.batch = m.batch,
                      !.fault = IF m.rejected THEN "body" ELSE "none",
                      !.promise = IF m.rejected THEN PromiseAfterCatch ELSE "resolved"]
  /\ UNCHANGED <<config, probe, timeline, lifeVars, flights, keyDebounce, scrollDebounce, nextId,
                 env, hist>>

\* the fetch of flight f ends with `outcome`, any outcome until the network
\* has healed
Settle(f, outcome) ==
  /\ env.network => ResponseOk(outcome)
  /\ Resume(f, outcome)
  /\ UNCHANGED env

Complete == \E f \in flights, outcome \in Outcomes : Settle(f, outcome)

(***************************************************************************)
(* Lifecycle: enable(), disable(), destroy().                              *)
(***************************************************************************)
Enable ==
  /\ IF AlreadyEnabled(isTrackingEnabled)
       THEN /\ UNCHANGED <<lifeVars, keyDebounce, scrollDebounce>>
            /\ obs' = Report("enable")
       ELSE \E setupThrows \in BOOLEAN :
              LET en == EnableResult(config, listeners, observers, flushTimer,
                                     intervals, setupThrows)
              IN /\ isTrackingEnabled' = en.isTrackingEnabled
                 /\ listeners' = en.listeners
                 /\ observers' = en.observers
                 /\ flushTimer' = en.flushTimer
                 /\ intervals' = en.intervals
                 /\ keyDebounce' = NewDebounce(keyDebounce)
                 /\ scrollDebounce' = IF en.threw THEN scrollDebounce
                                     ELSE NewScrollDebounce(scrollDebounce)
                 /\ obs' = [Report("enable") EXCEPT !.threw = en.threw, !.acted = TRUE]
                 /\ UNCHANGED sessionId
  /\ UNCHANGED <<config, probe, timeline, eventBuffer, flights, microtasks, nextId, env, hist>>

\* a cleanup() that forgets the interval
ClearedIntervalForgotten(timer, iv) == iv

\* `if (this.flushTimer) { clearInterval(this.flushTimer); ... }`: the
\* intervals still armed after cleanup()
ClearedInterval(timer, iv) == IF timer THEN iv - 1 ELSE iv

\* cleanup(): clear the interval, disconnect observers, remove listeners
Cleanup ==
  /\ flushTimer' = FALSE
  /\ intervals' = ClearedInterval(flushTimer, intervals)
  /\ observers' = 0
  /\ listeners' = <<>>

\* a destroy() that keeps the session identifier
InvalidatedKept(sid) == sid

\* `this.sessionId = null;` of destroy()
Invalidated(sid) == Null

Disable ==
  /\ IF AlreadyDisabled(isTrackingEnabled)
       THEN UNCHANGED lifeVars
       ELSE /\ isTrackingEnabled' = FALSE
            /\ Cleanup
            /\ UNCHANGED sessionId
  /\ obs' = [Report("disable") EXCEPT !.acted = ~AlreadyDisabled(isTrackingEnabled)]
  /\ UNCHANGED <<config, probe, timeline, eventBuffer, flights, microtasks, keyDebounce, scrollDebounce, nextId, env, hist>>

Destroy ==
  /\ IF AlreadyDisabled(isTrackingEnabled)
       THEN UNCHANGED <<isTrackingEnabled, flushTimer, intervals, listeners, observers>>
       ELSE /\ isTrackingEnabled' = FALSE
            /\ Cleanup
  /\ eventBuffer' = <<>>
  /\ sessionId' = Invalidated(sessionId)
  /\ flights' = {[f EXCEPT !.alone = FALSE] : f \in flights}
  /\ UNCHANGED microtasks
  /\ obs' = [Report("destroy") EXCEPT !.acted = ~AlreadyDisabled(isTrackingEnabled)]
  /\ UNCHANGED <<config, probe, timeline, keyDebounce, scrollDebounce, nextId, env, hist>>

(***************************************************************************)
(* The controller and its delivery path.                                   *)
(***************************************************************************)
Next ==
  \/ TrackCall
  \/ DataChanges
  \/ Tick
  \/ FlushCall
  \/ RunMicrotask
  \/ Complete
  \/ Enable
  \/ Disable
  \/ Destroy

Spec == Init /\ [][Next]_vars

(***************************************************************************)
(* The capture listeners: click, input, mutation observer, debounce.       *)
(***************************************************************************)
\* mouseHandler, the document's click listener; el is e.target
ClickEvent(el) ==
  /\ HasListener("document", "click")
  /\ \E hookThrows \in HookChoices : Track("click", "mouse", el, hookThrows)
  /\ UNCHANGED <<config, probe, timeline, lifeVars, keyDebounce, scrollDebounce, env>>

\* a debounce instance for each element: a call leaves the pending timeout
\* of another element running
DebouncedLogPerElement(d, target) ==
  [d EXCEPT !.cur = target, !.superseded = d.cur,
            !.stale = IF d.cur \in {Null, target} THEN @ ELSE @ (+) SetToBag({d.cur})]

\* debouncedLog(target, value): clearTimeout, then setTimeout with the new
\* target; superseded is the target of the timeout that was cleared
DebouncedLog(d, target) == [d EXCEPT !.cur = target, !.superseded = d.cur]

\* the run may still set a timeout: one is pending and will be replaced, or
\* fewer than MaxStale are left over from earlier closures
DebounceRoom ==
  keyDebounce.cur # Null \/ BagCardinality(keyDebounce.stale) < MaxStale

\* the input listener of element el
InputEvent(el) ==
  /\ HasListener(el, "input")
  /\ DebounceRoom
  /\ keyDebounce' = DebouncedLog(keyDebounce, el)
  /\ obs' = Report("input")
  /\ UNCHANGED <<config, probe, timeline, eventBuffer, lifeVars, flights, microtasks,
                 scrollDebounce, nextId, env, hist>>

RECURSIVE ObserveMutations(_, _)
\* the MutationObserver callback's loop over characterData mutations, each
\* given by its target's parentElement (Null when it has none)
ObserveMutations(d, parents) ==
  IF parents = <<>> THEN d
  ELSE LET el == Head(parents)
       IN IF el = Null \/ IsSensitive(el)
            THEN ObserveMutations(d, Tail(parents))
            ELSE ObserveMutations(DebouncedLog(d, el), Tail(parents))

MutationBatches ==
  {<<a>> : a \in ElementIds \cup {Null}}
    \cup {<<a, b>> : a \in {"note", "pwd"}, b \in {"email", "card", Null}}

MutationEvent(parents) ==
  /\ observers > 0
  /\ DebounceRoom
  /\ keyDebounce' = ObserveMutations(keyDebounce, parents)
  /\ obs' = Report("mutation")
  /\ UNCHANGED <<config, probe, timeline, eventBuffer, lifeVars, flights, microtasks,
                 scrollDebounce, nextId, env, hist>>

\* the debounced function body, run when a timeout for `target` expires
KeystrokeFire(target, hookThrows) ==
  IF IsSensitive(target)
    THEN /\ obs' = Report("keystroke")
         /\ UNCHANGED <<eventBuffer, flights, microtasks, nextId, hist>>
    ELSE Track("keystroke", "keystroke", target, hookThrows)

\* the timeout of the current debouncedLog closure expires
DebounceFire ==
  /\ TaskMayStart
  /\ keyDebounce.cur # Null
  /\ keyDebounce' = [keyDebounce EXCEPT !.cur = Null]
  /\ \E hookThrows \in HookChoices : KeystrokeFire(keyDebounce.cur, hookThrows)
  /\ UNCHANGED <<config, probe, timeline, lifeVars, scrollDebounce, env>>

\* a timeout left by the closure of an earlier enable() expires
StaleFire ==
  \E target \in BagToSet(keyDebounce.stale) :
    /\ TaskMayStart
    /\ keyDebounce' = [keyDebounce EXCEPT !.stale = @ (-) SetToBag({target})]
    /\ \E hookThrows \in HookChoices : KeystrokeFire(target, hookThrows)
    /\ UNCHANGED <<config, probe, timeline, lifeVars, scrollDebounce, env>>

\* the tracker on a page the user clicks and types in
InitCapture ==
  /\ Init
  /\ config.bufferSize = MaxBufferSize
  /\ ~config.onFlush

NextCapture ==
  \/ \E el \in ElementIds : ClickEvent(el)
  \/ \E el \in ElementIds : InputEvent(el)
  \/ \E parents \in MutationBatches : MutationEvent(parents)
  \/ DebounceFire
  \/ StaleFire
  \/ RunMicrotask
  \/ Enable
  \/ Disable

SpecCapture == InitCapture /\ [][NextCapture]_vars

(***************************************************************************)
(* The whole lifecycle: every public operation, updateConfig() included,   *)
(* with the timer, the completions and the debounced keystroke listener.   *)
(***************************************************************************)
\* updateConfig(newConfig): merge, then resolve the endpoint again
updateConfig(cfg, newConfig) ==
  LET merged == Merge(cfg, newConfig)
  IN [merged EXCEPT !.apiEndpoint = getEndpoint(merged)]

\* the partial configurations a caller passes to updateConfig
ConfigPatches == {[mode |-> m] : m \in Modes}

\* hist.supplied is the apiEndpoint the caller last passed, to the
\* constructor or to updateConfig
UpdateConfig(newConfig) ==
  /\ config' = updateConfig(config, newConfig)
  /\ hist' = IF "apiEndpoint" \in DOMAIN newConfig
               THEN [hist EXCEPT !.supplied = newConfig.apiEndpoint]
               ELSE hist
  /\ obs' = Report("updateConfig")
  /\ UNCHANGED <<timeline, probe, eventBuffer, lifeVars, flights, microtasks, keyDebounce, scrollDebounce, nextId, env>>

InitLife ==
  /\ Init
  /\ config.bufferSize = MaxBufferSize
  /\ ~config.onFlush
  /\ config.mode # "self-hosted"

\* the run may still accept events
LifeEventsLeft == nextId <= MaxLifeEvents

LifeTrackCall ==
  /\ LifeEventsLeft
  /\ TrackCall

LifeDebounceFire ==
  /\ LifeEventsLeft
  /\ DebounceFire

LifeStaleFire ==
  /\ LifeEventsLeft
  /\ StaleFire

NextLife ==
  \/ LifeTrackCall
  \/ DataChanges
  \/ Tick
  \/ FlushCall
  \/ RunMicrotask
  \/ Complete
  \/ Enable
  \/ Disable
  \/ Destroy
  \/ \E newConfig \in ConfigPatches : UpdateConfig(newConfig)
  \/ \E el \in ElementIds : InputEvent(el)
  \/ LifeDebounceFire
  \/ LifeStaleFire

SpecLife == InitLife /\ [][NextLife]_vars

(***************************************************************************)
(* Construction from whatever options the caller passes: the constructor   *)
(* spreads them over its defaults as they are.                             *)
(***************************************************************************)
\* bufferSize and flushInterval values a caller may pass
SizeInputs == (0 - 1)..MaxBufferSize
IntervalInputs == {0 - 1, 0, DefaultFlushInterval}

\* the option objects passed to the constructor: a mode and a key alone, or
\* with a bufferSize and a flushInterval
CtorInputs ==
  {[mode |-> m, apiKey |-> TRUE] : m \in {"console", "hosted"}}
    \cup {[mode |-> m, apiKey |-> TRUE, bufferSize |-> b, flushInterval |-> i] :
            m \in {"console", "hosted"}, b \in SizeInputs, i \in IntervalInputs}

InitCtor ==
  \E options \in CtorInputs, consent \in ConsentAnswers :
    InitFrom(options, consent, FALSE)

NextCtor ==
  \/ LifeTrackCall
  \/ Tick
  \/ RunMicrotask
  \/ Complete
  \/ Enable
  \/ Disable

SpecCtor == InitCtor /\ [][NextCtor]_vars

(***************************************************************************)
(* The helpers on their own: sanitizeText and isSensitiveField, of the     *)
(* class and of the standalone script, called with any text and any        *)
(* target, and the scroll handler run at any scroll position of any page.  *)
(***************************************************************************)
TextChars == {"1", "7", "a", "[", " "}

RECURSIVE TextsOfLen(_)
TextsOfLen(n) ==
  IF n = 0 THEN {<<>>}
  ELSE {Append(t, c) : t \in TextsOfLen(n - 1), c \in TextChars}

\* the texts given to sanitizeText
Texts == UNION {TextsOfLen(n) : n \in 0..MaxTextLen}

\* the targets given to isSensitiveField: type, name and autocomplete in
\* several spellings, "" when the property is absent; among them a type
\* spelt with the dotted capital I (304), and names spelt with KELVIN SIGN
\* (8490), with a capital E acute (201) and in Greek capitals (913, 931)
Targets ==
  {NoElement} \cup
  [tagName : {"INPUT"},
   type : {<<>>, Units(<<"t","e","x","t">>), Units(<<"p","a","s","s","w","o","r","d">>),
           Units(<<"P","A","S","S","W","O","R","D">>), Units(<<"h","i","d","d","e","n">>),
           Units(<<"h">>) \o <<304>> \o Units(<<"d","d","e","n">>)},
   name : {<<>>, Units(<<"e","m","a","i","l">>), Units(<<"C","a","r","d","N","o">>),
           Units(<<"x","c","v","v">>), Units(<<"P","a","s","s","w","o","r","d","2">>),
           Units(<<"s","s","n">>), Units(<<"c","s","r","f","T","o","k","e","n">>),
           Units(<<"s","e","c","r","e","t">>), Units(<<"c","a","r">>),
           Units(<<"t","o">>) \o <<8490>> \o Units(<<"e","n">>),
           Units(<<"s">>) \o <<201>> \o Units(<<"c","r","e","t">>), <<913, 931>>},
   autocomplete : {<<>>, Units(<<"c","c","-","e","x","p">>), Units(<<"C","C","-","n","a","m","e">>),
                   Units(<<"a","c","c","-">>), Units(<<"o","f","f">>)}]

\* A page 40 pixels taller than its viewport scrolled down by 23, and one
\* 40 pixels shorter scrolled by 11: the exact products 57.5 and -27.5 are
\* halves, and in double arithmetic the products lie beside them.
LongPages ==
  {[scrollTop |-> 23, scrollHeight |-> 40 + h, innerHeight |-> h] : h \in 1..MaxScroll}
    \cup {[scrollTop |-> 11, scrollHeight |-> h, innerHeight |-> 40 + h] : h \in 1..MaxScroll}

\* scroll positions and page geometries
ScrollInputs ==
  [scrollTop : 0..MaxScroll, scrollHeight : 1..MaxScroll, innerHeight : 1..MaxScroll]
    \cup LongPages

\* Chyavan.sanitizeText is called
SanitizeCall(text) ==
  /\ probe' = [fn |-> "sanitizeText", source |-> "Chyavan", input |-> text,
               output |-> sanitizeText(text)]
  /\ UNCHANGED <<config, timeline, eventBuffer, lifeVars, flights, microtasks, keyDebounce, scrollDebounce, nextId,
                 env, hist, obs>>

\* the two isSensitiveField over the targets, evaluated once
SensitiveTargets == {el \in Targets : isSensitiveField(el)}
SensitiveTargetsStandalone == {el \in Targets : isSensitiveFieldStandalone(el)}

\* Chyavan.isSensitiveField is called
ClassifyCall(el) ==
  /\ probe' = [fn |-> "isSensitiveField", source |-> "Chyavan", input |-> el,
               output |-> el \in SensitiveTargets]
  /\ UNCHANGED <<config, timeline, eventBuffer, lifeVars, flights, microtasks, keyDebounce, scrollDebounce, nextId,
                 env, hist, obs>>

\* the sanitizeText and the isSensitiveField of src/src/index.js are called
SanitizeCallStandalone(text) ==
  /\ probe' = [fn |-> "sanitizeText", source |-> "index.js", input |-> text,
               output |-> sanitizeTextStandalone(text)]
  /\ UNCHANGED <<config, timeline, eventBuffer, lifeVars, flights, microtasks, keyDebounce,
                 scrollDebounce, nextId, env, hist, obs>>

ClassifyCallStandalone(el) ==
  /\ probe' = [fn |-> "isSensitiveField", source |-> "index.js", input |-> el,
               output |-> el \in SensitiveTargetsStandalone]
  /\ UNCHANGED <<config, timeline, eventBuffer, lifeVars, flights, microtasks, keyDebounce,
                 scrollDebounce, nextId, env, hist, obs>>

\* the run may still set a scroll timeout: one is pending and will be
\* replaced, or fewer than MaxStale are left over from earlier closures
ScrollRoom == scrollDebounce.cur \/ scrollDebounce.stale < MaxStale

\* the window's scroll listener, the debounced scrollHandler: clearTimeout,
\* then setTimeout
ScrollEvent ==
  /\ HasListener("window", "scroll")
  /\ ScrollRoom
  /\ scrollDebounce' = [scrollDebounce EXCEPT !.cur = TRUE]
  /\ obs' = Report("scroll event")
  /\ UNCHANGED <<config, probe, timeline, eventBuffer, lifeVars, flights, microtasks,
                 keyDebounce, nextId, env, hist>>

\* A timeout of a debounced scrollHandler expires, that of the closure the
\* listener calls or one left by an earlier closure, and its body runs:
\* compute the percentage, then track('scroll', { x, y, percentage }).
ScrollFire(in) ==
  /\ TaskMayStart
  /\ LifeEventsLeft
  /\ \/ /\ scrollDebounce.cur
        /\ scrollDebounce' = [scrollDebounce EXCEPT !.cur = FALSE]
     \/ /\ scrollDebounce.stale > 0
        /\ scrollDebounce' = [scrollDebounce EXCEPT !.stale = @ - 1]
  /\ probe' = [fn |-> "scrollHandler", source |-> "Chyavan", input |-> in,
               output |-> scrollPercentage(in.scrollTop,
                                           in.scrollHeight - in.innerHeight)]
  /\ \E hookThrows \in HookChoices : Track("scroll", "scroll", Null, hookThrows)
  /\ UNCHANGED <<config, timeline, lifeVars, keyDebounce, env>>

InitProbe ==
  /\ Init
  /\ ConsoleMode(config)
  /\ config.bufferSize = MaxBufferSize
  /\ ~config.onFlush
  /\ obs.consent = "granted"
  /\ ~obs.threw

\* the page scrolls and the debounced handler runs, across disable() and
\* enable()
NextProbe ==
  \/ ScrollEvent
  \/ \E in \in ScrollInputs : ScrollFire(in)
  \/ Enable
  \/ Disable

SpecProbe == InitProbe /\ [][NextProbe]_vars

\* the two sanitizeText called with any text
NextSanitize ==
  \/ \E text \in Texts : SanitizeCall(text)
  \/ \E text \in Texts : SanitizeCallStandalone(text)

SpecSanitize == InitProbe /\ [][NextSanitize]_vars

\* the two isSensitiveField called with any target
NextClassify ==
  \/ \E el \in Targets : ClassifyCall(el)
  \/ \E el \in Targets : ClassifyCallStandalone(el)

SpecClassify == InitProbe /\ [][NextClassify]_vars

(***************************************************************************)
(* debounce(fn, delay) against the clock: one debounced function, the      *)
(* timers it sets, and the calls of fn they make.                          *)
(***************************************************************************)
\* a debounced function that never clears its timer
ClearTimeoutForgotten(pending, id) == pending

\* clearTimeout(timeout): the timer with this id, if still pending, is gone
ClearTimeout(pending, id) == {tm \in pending : tm.id # id}

\* debounce(fn, delay): the debounced function is created
CreateDebounced(delay) ==
  /\ timeline.delay = 0
  /\ timeline' = [timeline EXCEPT !.delay = delay]
  /\ UNCHANGED <<config, probe, eventBuffer, lifeVars, flights, microtasks, keyDebounce, scrollDebounce, nextId,
                 env, hist, obs>>

\* the debounced function is called; its arguments are the number of the call
CallDebounced ==
  /\ timeline.delay > 0
  /\ Len(timeline.calls) < MaxCalls
  /\ LET args == Len(timeline.calls) + 1
         id   == Len(timeline.calls) + 1
     IN timeline' =
          [timeline EXCEPT
             !.pending = ClearTimeout(timeline.pending, timeline.timeout)
                           \cup {[id |-> id, due |-> timeline.now + timeline.delay,
                                   args |-> args]},
             !.timeout = id,
             !.calls = Append(@, [at |-> timeline.now, args |-> args])]
  /\ UNCHANGED <<config, probe, eventBuffer, lifeVars, flights, microtasks, keyDebounce, scrollDebounce, nextId,
                 env, hist, obs>>

\* a timer runs `fn.apply(this, args)`, at its due instant or, when the
\* event loop was busy, later
TimerFires ==
  /\ \E tm \in timeline.pending :
       /\ tm.due <= timeline.now
       /\ timeline' =
            [timeline EXCEPT
               !.pending = @ \ {tm},
               !.emitted = Append(@, [at |-> timeline.now, args |-> tm.args])]
  /\ UNCHANGED <<config, probe, eventBuffer, lifeVars, flights, microtasks, keyDebounce, scrollDebounce, nextId,
                 env, hist, obs>>

\* the clock advances, whether or not a timer that is due has run
ClockTicks ==
  /\ timeline.now < MaxTime
  /\ timeline' = [timeline EXCEPT !.now = @ + 1]
  /\ UNCHANGED <<config, probe, eventBuffer, lifeVars, flights, microtasks, keyDebounce, scrollDebounce, nextId,
                 env, hist, obs>>

InitDebounce ==
  /\ Init
  /\ config.mode = "console"
  /\ config.bufferSize = MaxBufferSize
  /\ ~config.onFlush
  /\ obs.consent = "granted"
  /\ ~obs.threw

NextDebounce ==
  \/ \E delay \in 1..MaxDelay : CreateDebounced(delay)
  \/ CallDebounced
  \/ TimerFires
  \/ ClockTicks

SpecDebounce == InitDebounce /\ [][NextDebounce]_vars

(***************************************************************************)
(* The tracker left enabled in a network mode, with a periodic timer that  *)
(* keeps firing, fetches that all settle, and a network that from some     *)
(* point on answers every request with a 2xx status.                       *)
(***************************************************************************)
NetworkHeals ==
  /\ ~env.network
  /\ env' = [env EXCEPT !.network = TRUE]
  /\ obs' = Report("env")
  /\ UNCHANGED <<config, probe, timeline, eventBuffer, lifeVars, flights, microtasks, keyDebounce, scrollDebounce, nextId, hist>>

HookHeals ==
  /\ ~env.hook
  /\ env' = [env EXCEPT !.hook = TRUE]
  /\ obs' = Report("env")
  /\ UNCHANGED <<config, probe, timeline, eventBuffer, lifeVars, flights, microtasks, keyDebounce, scrollDebounce, nextId, hist>>

InitLive ==
  /\ Init
  /\ config.mode # "console"
  /\ isTrackingEnabled
  /\ flushTimer

\* track() while the run may still accept events
LiveTrackCall ==
  /\ nextId <= MaxLiveEvents
  /\ TrackCall

NextLive ==
  \/ LiveTrackCall
  \/ DataChanges
  \/ Tick
  \/ RunMicrotask
  \/ Complete
  \/ NetworkHeals
  \/ HookHeals

\* the fetch carrying the event with this id settles
SettleOf(id) ==
  \E f \in flights, outcome \in Outcomes :
    /\ id \in Ids(f.batch)
    /\ Settle(f, outcome)

\* The interval timer keeps firing, the microtask queue is run, every fetch
\* settles, and the network heals.  Nothing is assumed about the hook.
LiveSpec ==
  /\ InitLive
  /\ [][NextLive]_vars
  /\ WF_vars(Tick)
  /\ WF_vars(RunMicrotask)
  /\ \A id \in 1..MaxLiveEvents : WF_vars(SettleOf(id))
  /\ WF_vars(NetworkHeals)

(***************************************************************************)
(* An outage: a self-hosted tracker with the default buffer size posts to  *)
(* the receiver of server.js.  While the network is down every fetch       *)
(* rejects; once it is back the receiver answers each batch by its         *)
(* limiter and its validation.                                             *)
(***************************************************************************)
\* `if (events.length > 100)` of validateTrackingData
ReceiverLimit == 100

\* `max: 100` of the rate limiter: the requests answered in one window
RateLimitMax == 100

\* The body of the request, `JSON.stringify({ events })`, as the receiver
\* parses it: events is an array, and of each event the receiver reads the
\* type, the string track() was called with, and the timestamp, which is
\* Date.now(), an integer.
RequestBody(events) ==
  [isArray |-> TRUE,
   events |-> [i \in 1..Len(events) |->
                 [type |-> events[i].type, timestamp |-> "integer"]]]

\* `!event.type || typeof event.type !== 'string'`: a type is a string here,
\* and only the empty one fails the test
InvalidType(type) == type = ""

\* `event.timestamp && !Number.isInteger(event.timestamp)`: a timestamp is
\* absent, zero, another integer or a fraction; only the last fails
InvalidTimestamp(timestamp) == timestamp = "fraction"

\* validateTrackingData on a parsed body: TRUE when it calls next(), FALSE
\* when it answers 400
validateTrackingData(body) ==
  IF ~body.isArray THEN FALSE
  ELSE IF Len(body.events) > ReceiverLimit THEN FALSE
  ELSE \A i \in 1..Len(body.events) :
         /\ ~InvalidType(body.events[i].type)
         /\ ~InvalidTimestamp(body.events[i].timestamp)

\* the limiter, which runs before the body is parsed: the request is
\* answered 429 when the window has counted RateLimitMax requests already
RateLimited(hits) == hits >= RateLimitMax

\* the requests counted once one more has arrived; past the limit the
\* count makes no difference and is kept as it is
Counted(hits) == IF RateLimited(hits) THEN hits ELSE hits + 1

\* the status the receiver answers a batch with: 429 from the limiter, 400
\* from the validation, or the JSON acknowledgement of the /track handler
ReceiverOutcome(events, hits) ==
  IF RateLimited(hits) THEN "non_2xx"
  ELSE IF validateTrackingData(RequestBody(events)) THEN "2xx_json"
  ELSE "non_2xx"

OutageOptions ==
  [mode |-> "self-hosted", apiEndpoint |-> "user", bufferSize |-> DefaultBufferSize]

InitOutage == InitFrom(OutageOptions, "granted", FALSE)

\* the page calls track('custom', {...}), as long as fewer than
\* MaxOutageFlights sends are in flight
OutageTrack ==
  /\ Cardinality(flights) < MaxOutageFlights
  /\ TrackWithin(MaxOutageEvents, "track", "custom", Null, PlainData, FALSE)
  /\ UNCHANGED <<config, probe, timeline, lifeVars, keyDebounce, scrollDebounce, env>>

\* the timer tick, under the same bound
OutageTick ==
  /\ Cardinality(flights) < MaxOutageFlights
  /\ Tick

\* the fetch of flight f ends: rejected while the network is down, counted
\* and answered by the receiver once it is back
OutageSettle ==
  \E f \in flights :
    /\ Resume(f, IF env.network THEN ReceiverOutcome(f.batch, env.hits)
                 ELSE "network_error")
    /\ env' = IF env.network THEN [env EXCEPT !.hits = Counted(@)] ELSE env

\* the limiter's window of 15 minutes ends and its count starts again
WindowExpires ==
  /\ env.hits > 0
  /\ env' = [env EXCEPT !.hits = 0]
  /\ obs' = Report("env")
  /\ UNCHANGED <<config, probe, timeline, eventBuffer, lifeVars, flights, microtasks,
                 keyDebounce, scrollDebounce, nextId, hist>>

NextOutage ==
  \/ OutageTrack
  \/ OutageTick
  \/ OutageSettle
  \/ NetworkHeals
  \/ WindowExpires

SpecOutage == InitOutage /\ [][NextOutage]_vars

(***************************************************************************)
(* Properties of the delivery path.                                        *)
(***************************************************************************)
IdSeq(events) == [i \in 1..Len(events) |-> events[i].id]

NoRepeat(events) ==
  \A i, j \in 1..Len(events) : i # j => events[i].id # events[j].id

\* the ids mark, mark+1, ..., next-1: the events accepted since `mark`
IdsSince(mark, next) == [i \in 1..(next - mark) |-> mark + i - 1]

\* the step is the resumption of flight f, whose sendEvents rejected
FailedSettle(f) ==
  /\ f \in flights
  /\ flights' = flights \ {f}
  /\ obs'.op = "settle"
  /\ obs'.batch = f.batch
  /\ SendRejects(obs'.outcome)

\* the step is the resumption of flight f with the given outcome
SettledWith(f, outcomes) ==
  /\ f \in flights
  /\ flights' = flights \ {f}
  /\ obs'.op = "settle"
  /\ obs'.batch = f.batch
  /\ obs'.outcome \in outcomes

\* the batches of the flushes suspended at their await, whether the fetch
\* is still out or the flush is about to resume
SuspendedBatches ==
  {f.batch : f \in flights} \cup {microtasks[i].batch : i \in 1..Len(microtasks)}

\* C1: no event is in two places at once: the buffer and the batches of the
\* in-flight flushes hold each event at most once and are pairwise disjoint.
C1_NoEventInTwoPlaces ==
  /\ NoRepeat(eventBuffer)
  /\ Cardinality(SuspendedBatches) = Cardinality(flights) + Len(microtasks)
  /\ \A b \in SuspendedBatches :
       /\ NoRepeat(b)
       /\ Ids(b) \cap Ids(eventBuffer) = {}
  /\ \A b, c \in SuspendedBatches : b # c => Ids(b) \cap Ids(c) = {}

\* two flushes are in flight at once and a later event waits in the buffer
C1_Witness ==
  /\ Cardinality(flights) >= 2
  /\ eventBuffer # <<>>

\* C2 as stated: after a failed flush the buffer is its batch followed by
\* exactly the events accepted while it was in flight, in acceptance order.
C2_AsStated ==
  [][\A f \in flights :
       FailedSettle(f) =>
         IdSeq(eventBuffer') = IdSeq(f.batch) \o IdsSince(f.mark, nextId)]_vars

\* what the catch block does keep: a failed flush puts its batch, in order,
\* in front of whatever the buffer holds at the moment its catch block runs
\* (a hook failure in front of nothing).  What follows is exactly the events
\* accepted during the flight, in order, for a flush that was the only one
\* suspended from its drain to its failure, with no destroy() in between.
C2_RequeueAtHead ==
  [][/\ \A f \in flights :
          FailedSettle(f) =>
            /\ eventBuffer' = f.batch \o eventBuffer
            /\ f.alone => IdSeq(eventBuffer) = IdsSince(f.mark, nextId)
     /\ (obs'.op = "resume" /\ obs'.fault = "body") =>
          eventBuffer' = obs'.batch \o eventBuffer
     /\ obs'.hook = "threw" => eventBuffer' = obs'.batch]_vars

\* a lone flush of two events failed and a newcomer follows them
C2_LoneFlushFailed ==
  /\ obs.op = "settle"
  /\ SendRejects(obs.outcome)
  /\ IdSeq(obs.batch) = <<1, 2>>
  /\ IdSeq(eventBuffer) = <<1, 2, 3>>
  /\ flights = {}

\* C3 as stated: the buffer is always ordered oldest-first.
C3_OldestFirst ==
  \A i, j \in 1..Len(eventBuffer) :
    i < j => eventBuffer[i].id < eventBuffer[j].id

\* C5: a settled flush leaves its batch either wholly out of the buffer or
\* wholly in it, and wholly in it after a rejected fetch, a non-2xx status,
\* a request body that could not be built or a throwing hook.
C5_CommitOrRequeue ==
  [][/\ \A f \in flights :
          SettledWith(f, Outcomes) =>
            /\ \/ Ids(f.batch) \cap Ids(eventBuffer') = {}
               \/ Ids(f.batch) \subseteq Ids(eventBuffer')
            /\ obs'.outcome \in {"network_error", "non_2xx"} =>
                 Ids(f.batch) \subseteq Ids(eventBuffer')
     /\ (obs'.op = "resume" /\ obs'.fault = "body") =>
          /\ obs'.batch # <<>>
          /\ Ids(obs'.batch) \subseteq Ids(eventBuffer')
     /\ obs'.hook = "threw" =>
          /\ obs'.batch # <<>>
          /\ Ids(obs'.batch) \subseteq Ids(eventBuffer')]_vars

\* a two-event batch came back whole after a non-2xx answer
C5_Witness ==
  /\ obs.op = "settle"
  /\ obs.outcome = "non_2xx"
  /\ Len(obs.batch) = 2
  /\ Ids(obs.batch) \subseteq Ids(eventBuffer)

\* C6: when the hook throws, fetch is not called for the batch and the whole
\* batch is back at the head of the buffer.
C6_HookFailureRequeues ==
  [][obs'.hook = "threw" =>
       /\ ~obs'.sent
       /\ {f.batch : f \in flights'} = {f.batch : f \in flights}
       /\ obs'.batch # <<>>
       /\ Len(eventBuffer') >= Len(obs'.batch)
       /\ SubSeq(eventBuffer', 1, Len(obs'.batch)) = obs'.batch
       /\ Ids(eventBuffer) \subseteq Ids(obs'.batch)]_vars

\* the hook threw on a two-event batch
C6_Witness ==
  /\ obs.hook = "threw"
  /\ Len(obs.batch) = 2
  /\ eventBuffer = obs.batch

\* One track() step of C7: while neither flush() nor destroy() has been
\* called, the buffer holds every accepted event in order and stays below
\* bufferSize; the track() that brings it to bufferSize calls flush() exactly
\* once, with exactly those events; and no track() starts more than one flight.
OverflowFlushesOnce ==
  /\ (~hist.flushCalled /\ sessionId # Null) =>
       /\ IdSeq(eventBuffer) = IdsSince(1, nextId)
       /\ Len(eventBuffer) < config.bufferSize
  /\ (~hist.flushCalled /\ sessionId # Null /\ obs'.accepted) =>
       /\ (obs'.flushes = 1) <=> (Len(eventBuffer) + 1 = config.bufferSize)
       /\ obs'.flushes = 1 =>
            /\ IdSeq(obs'.batch) = IdsSince(1, nextId')
            /\ Len(obs'.batch) = config.bufferSize
            /\ obs'.sent => flights' = {[batch |-> obs'.batch, mark |-> nextId',
                                         alone |-> TRUE]}
       /\ obs'.flushes = 0 => flights' = flights
  /\ obs'.op = "track" =>
       /\ obs'.flushes <= 1
       /\ Cardinality(flights') <= Cardinality(flights) + 1

\* the lone flight f settles with one of `outcomes`, nothing having been
\* accepted since it drained the buffer, and the buffer is empty afterwards
EmptyAfter(outcomes) ==
  \A f \in flights :
    (SettledWith(f, outcomes) /\ f.alone /\ f.mark = nextId) => eventBuffer' = <<>>

\* C7 as stated: reaching bufferSize calls flush() exactly once with the
\* events present, and when that send is answered with a success status the
\* buffer is empty afterwards.
C7_AsStated ==
  [][/\ OverflowFlushesOnce
     /\ EmptyAfter({o \in Outcomes : ResponseOk(o)})]_vars

\* C7, the part the code keeps: one flush per overflow, and an empty buffer
\* after a 2xx answer whose body is JSON.
C7_OneFlushPerOverflow ==
  [][/\ OverflowFlushesOnce
     /\ EmptyAfter({"2xx_json"})]_vars

\* bufferSize 2: the second event was accepted and one flush sent both
C7_Witness ==
  /\ config.bufferSize = 2
  /\ obs.op = "track"
  /\ obs.flushes = 1
  /\ obs.sent
  /\ IdSeq(obs.batch) = <<1, 2>>
  /\ eventBuffer = <<>>
  /\ Cardinality(flights) = 1

\* C8 as stated: after a 2xx answer the batch is never back in the buffer.
C8_SuccessStatusCommits ==
  [][(obs'.op = "settle" /\ ResponseOk(obs'.outcome)) =>
       Ids(obs'.batch) \cap Ids(eventBuffer') = {}]_vars

\* C10: flush() on an empty buffer calls neither the hook nor fetch and
\* changes nothing of the controller.
C10_EmptyFlushNoOp ==
  [][(obs'.op \in {"flush", "tick"} /\ eventBuffer = <<>>) =>
       /\ obs'.hook = "none"
       /\ ~obs'.sent
       /\ obs'.batch = <<>>
       /\ UNCHANGED <<config, probe, intervals, timeline, eventBuffer, isTrackingEnabled, flushTimer, listeners,
                      observers, sessionId, flights, microtasks, keyDebounce, scrollDebounce, nextId>>]_vars

\* flush() ran on an empty buffer with a hook and an endpoint configured,
\* while an earlier flush was still in flight
C10_Witness ==
  /\ obs.op = "flush"
  /\ obs.flushes = 1
  /\ obs.batch = <<>>
  /\ eventBuffer = <<>>
  /\ config.onFlush
  /\ config.apiEndpoint # Null
  /\ flights # {}

(***************************************************************************)
(* Properties of the lifecycle.                                            *)
(***************************************************************************)
NoListenerTwice ==
  \A i, j \in 1..Len(listeners) : i # j => listeners[i] # listeners[j]

NothingRetained ==
  /\ listeners = <<>>
  /\ observers = 0
  /\ ~flushTimer
  /\ intervals = 0

\* C11: a disable() called while enabled leaves no listener, no observer and
\* no armed interval, whatever enable / disable cycles came before.
C11_DisableReleasesAll ==
  [][(obs'.op = "disable" /\ isTrackingEnabled) =>
       /\ ~isTrackingEnabled'
       /\ NothingRetained']_vars

\* disable() acted in a second enable / disable cycle, in a network mode
C11_Witness ==
  /\ obs.op = "disable"
  /\ obs.acted
  /\ keyDebounce.stale # EmptyBag
  /\ config.mode # "console"
  /\ NothingRetained

\* C12: enable() while enabled and disable() while disabled change nothing;
\* never more than one interval armed, one observer connected, and no
\* listener registered twice.
C12_Idempotent ==
  /\ [][(\/ (obs'.op = "enable" /\ isTrackingEnabled)
          \/ (obs'.op = "disable" /\ ~isTrackingEnabled)) =>
          UNCHANGED <<config, probe, eventBuffer, lifeVars, flights, microtasks, keyDebounce, scrollDebounce, nextId>>]_vars
  /\ [](/\ intervals <= 1
        /\ flushTimer <=> intervals = 1
        /\ observers <= 1
        /\ NoListenerTwice)

\* enable() was called on an enabled tracker whose interval is armed
C12_Witness ==
  /\ obs.op = "enable"
  /\ ~obs.acted
  /\ isTrackingEnabled
  /\ intervals = 1
  /\ observers = 1
  /\ listeners # <<>>

\* C13: destroy() leaves the tracker disabled with nothing retained, an empty
\* buffer and a null session id.
C13_DestroyClearsAll ==
  [][obs'.op = "destroy" =>
       /\ ~isTrackingEnabled'
       /\ NothingRetained'
       /\ eventBuffer' = <<>>
       /\ sessionId' = Null]_vars

\* destroy() ran on an enabled tracker, a flush still in flight
C13_Witness ==
  /\ obs.op = "destroy"
  /\ obs.acted
  /\ flights # {}
  /\ sessionId = Null

\* C14 as stated: once destroy() has run (the session id is null) the
\* tracker never becomes enabled, attaches no listener and accepts no event.
C14_DestroyedIsTerminal ==
  [][sessionId = Null =>
       /\ ~isTrackingEnabled'
       /\ listeners' = <<>>
       /\ ~obs'.accepted]_vars

\* C15: after construction the tracker is enabled only if consentCheck()
\* returned true or the mode is console, and in console mode always; with
\* consent denied in a network mode it is disabled with nothing retained,
\* and as long as enable() is not called it accepts no event.
C15_ConsentGatesConstruction ==
  /\ [](obs.op = "new" =>
          /\ isTrackingEnabled => (config.mode = "console" \/ obs.consent = "granted")
          /\ config.mode = "console" => isTrackingEnabled
          /\ (config.mode # "console" /\ obs.consent = "denied") =>
               /\ ~isTrackingEnabled
               /\ NothingRetained
               /\ eventBuffer = <<>>
               /\ nextId = 1)
  /\ [][(~isTrackingEnabled /\ nextId = 1 /\ obs'.op # "enable") =>
          /\ ~isTrackingEnabled'
          /\ nextId' = 1
          /\ eventBuffer' = <<>>
          /\ NothingRetained']_vars

\* constructed in hosted mode with a key and consent denied
C15_Witness ==
  /\ obs.op = "new"
  /\ obs.consent = "denied"
  /\ config.mode = "hosted"
  /\ config.apiEndpoint # Null
  /\ ~isTrackingEnabled
  /\ NothingRetained

\* C16 as stated: when consentCheck() or the listener setup threw during
\* construction, the tracker is disabled with nothing retained.
C16_InitErrorsLeaveDisabled ==
  (obs.op = "new" /\ obs.threw) =>
    /\ ~isTrackingEnabled
    /\ NothingRetained

\* C17: while the tracker is disabled no interval is armed, no tick runs,
\* and track(), from a caller or from a debounce timeout that was pending,
\* accepts nothing, starts no flush and leaves the buffer as it is.
C17_DisabledAcceptsNothing ==
  /\ [](~isTrackingEnabled => intervals = 0)
  /\ [][~isTrackingEnabled =>
          /\ obs'.op # "tick"
          /\ obs'.op \in {"track", "click", "keystroke"} =>
               /\ eventBuffer' = eventBuffer
               /\ flights' = flights
               /\ nextId' = nextId
               /\ ~obs'.accepted
               /\ obs'.flushes = 0]_vars

\* a debounce timeout fired on a disabled tracker holding a buffered event
C17_Witness ==
  /\ obs.op = "keystroke"
  /\ ~obs.accepted
  /\ ~isTrackingEnabled
  /\ sessionId # Null
  /\ eventBuffer # <<>>

\* the flush of flight f resumes on a disabled (not destroyed) tracker, its
\* fetch having ended with one of `outcomes`, and discards its batch
DiscardsWhileDisabled(outcomes) ==
  \A f \in flights :
    (~isTrackingEnabled /\ sessionId # Null /\ SettledWith(f, outcomes)) =>
      eventBuffer' = eventBuffer

\* One step of C18, but for the success case: disable() leaves the buffer and
\* the flights as they are, and a flush resuming on a disabled tracker whose
\* send failed puts its whole batch at the head of the buffer.
DisableKeepsFlights ==
  /\ obs'.op = "disable" =>
       /\ eventBuffer' = eventBuffer
       /\ flights' = flights
  /\ \A f \in flights :
       (/\ ~isTrackingEnabled
        /\ sessionId # Null
        /\ SettledWith(f, {"network_error", "non_2xx"})) =>
         eventBuffer' = f.batch \o eventBuffer

\* C18 as stated: a flush in flight across disable() is applied when it
\* ends, a success status discarding the batch and a failure requeuing it.
C18_AsStated ==
  [][/\ DisableKeepsFlights
     /\ DiscardsWhileDisabled({o \in Outcomes : ResponseOk(o)})]_vars

\* C18, the part the code keeps: the batch is discarded when the answer is
\* 2xx with a JSON body.
C18_OutcomeStillApplied ==
  [][/\ DisableKeepsFlights
     /\ DiscardsWhileDisabled({"2xx_json"})]_vars

\* C20: whatever the hook, the building of the request and the fetch do,
\* track() and the tick do not throw and the promise of the flush they start
\* is never rejected: it is resolved at once when the hook threw, or pending
\* until flush() resumes after its await and resolved then.
C20_NoErrorEscapes ==
  [][/\ (obs'.op \in {"track", "tick", "flush"} /\ ~ConsoleMode(config)) =>
          /\ ~obs'.threw
          /\ obs'.promise # "rejected"
          /\ obs'.hook = "threw" => obs'.promise = "resolved"
          /\ obs'.fault = "body" => obs'.promise = "pending"
     /\ obs'.op \in {"settle", "resume"} => obs'.promise = "resolved"]_vars

\* outside delivery: the console table of a console-mode flush is built
\* outside the try block, and the promise of that flush is rejected exactly
\* when JSON.stringify throws on the data of an event of the batch
C20_ConsoleDisplayRejects ==
  [][(obs'.op \in {"track", "tick", "flush"} /\ ConsoleMode(config)) =>
       /\ ~obs'.threw
       /\ (obs'.promise = "rejected") <=> (obs'.flushes = 1 /\ ~Displayable(obs'.batch))]_vars

\* the flush of a two-event overflow resumed after its fetch had rejected
C20_Witness ==
  /\ obs.op = "settle"
  /\ obs.outcome = "network_error"
  /\ obs.promise = "resolved"
  /\ Len(obs.batch) = 2
  /\ config.onFlush

\* C21 as stated: a buffer longer than bufferSize is transient, so what the
\* client holds stays bounded even when delivery keeps failing.
C21_ExcessIsTransient ==
  (Len(eventBuffer) > config.bufferSize) ~> (Len(eventBuffer) <= config.bufferSize)

\* C21, the part the code keeps: the buffer grows beyond bufferSize only by
\* the requeue of a failed flush.
C21_ExcessOnlyByRequeue ==
  [][(Len(eventBuffer') > config.bufferSize /\ IdSeq(eventBuffer') # IdSeq(eventBuffer)) =>
       \/ obs'.hook = "threw"
       \/ obs'.op = "resume" /\ obs'.fault = "body"
       \/ obs'.op = "settle" /\ SendRejects(obs'.outcome)]_vars

\* a bufferSize and a flushInterval the configuration allows: integers > 0
ValidConfig(cfg) ==
  /\ cfg.bufferSize > 0
  /\ cfg.flushInterval > 0

\* C22 as stated: a constructor called with a bufferSize or a flushInterval
\* that is not a positive integer reports an error, and no tracker is
\* enabled with such a configuration.
C22_InvalidConfigFailsFast ==
  /\ (obs.op = "new" /\ ~ValidConfig(config)) => obs.threw
  /\ isTrackingEnabled => ValidConfig(config)

\* C23: in console mode, whatever track(), flush(), enable() and disable()
\* calls are made, no interval is armed, no fetch is made and none is in
\* flight.
C23_ConsoleStaysLocal ==
  /\ [](config.mode = "console" =>
          /\ intervals = 0
          /\ ~flushTimer
          /\ flights = {})
  /\ [][config.mode = "console" => ~obs'.sent]_vars

\* in console mode the second track() overflowed and flushed both events
C23_Witness ==
  /\ config.mode = "console"
  /\ obs.op = "track"
  /\ obs.flushes = 1
  /\ Len(obs.batch) = 2
  /\ ~obs.sent
  /\ eventBuffer = <<>>
  /\ isTrackingEnabled
  /\ observers = 1

(***************************************************************************)
(* Properties of the helpers.                                              *)
(***************************************************************************)
\* C24 as stated: the scroll handler's percentage is always an integer, and
\* it is 0 when the page cannot scroll (document height minus viewport
\* height zero or negative).
C24_PercentageDefined ==
  probe.fn = "scrollHandler" =>
    /\ probe.output.kind = "number"
    /\ probe.input.scrollHeight - probe.input.innerHeight <= 0 => probe.output.value = 0

\* where the page can scroll, the percentage is the rounded share
C24_DefinedWhenScrollable ==
  (probe.fn = "scrollHandler"
     /\ probe.input.scrollHeight - probe.input.innerHeight > 0) =>
    /\ probe.output.kind = "number"
    /\ probe.output.value >= 0
    /\ (probe.input.scrollTop = probe.input.scrollHeight - probe.input.innerHeight
          => probe.output.value = 100)

\* the percentage is rounded as doubles are: 23 pixels down a page that
\* scrolls by 40 the product is the double below 57.5 and the percentage
\* 57, and 11 pixels down a page 40 pixels shorter than its viewport the
\* product is the double below -27.5 and the percentage -28
C24_RoundedAsDoubles ==
  (probe.fn = "scrollHandler" /\ probe.input \in LongPages) =>
    probe.output = [kind |-> "number",
                    value |-> IF probe.input.scrollTop = 23 THEN 57 ELSE 0 - 28]

\* the scroll handler ran on a long page
C24_LongPageScrolled ==
  /\ probe.fn = "scrollHandler"
  /\ probe.input = [scrollTop |-> 23, scrollHeight |-> 41, innerHeight |-> 1]
  /\ probe.output.value = 57

\* some piece of the text occurs in the descriptor
Leaks(text, descriptor) ==
  \E i \in 1..Len(text) : \E j \in i..Len(text) :
    includes(descriptor, SubSeq(text, i, j))

\* C25 as stated: no non-empty substring of the text occurs in what
\* sanitizeText returns for it.
C25_NoSubstring ==
  probe.fn = "sanitizeText" => ~Leaks(probe.input, probe.output)

\* the characters the descriptors are written with
DescriptorChars ==
  {"[", "]", " ", "d", "i", "g", "t", "s", "c", "h", "a", "r", "e", "T", "y", "p"}
    \cup {DigitChars[d] : d \in 1..Len(DigitChars)}

\* the sanitizeText that was called, applied to another text
SameSanitizeText(text) ==
  IF probe.source = "index.js" THEN sanitizeTextStandalone(text)
  ELSE sanitizeText(text)

\* C25 amended: for each of the two sanitizeText, the empty text gives the
\* empty string, and the descriptor of any other text is built only from its
\* length and its digits/characters tag: it is the descriptor of every text
\* of that length and kind, differs from those of the other lengths and
\* kinds, spells the length in decimal, carries the tag of the kind, and is
\* written with the descriptors' own characters only.
C25_LengthAndKindOnly ==
  probe.fn = "sanitizeText" =>
    /\ probe.input = <<>> <=> probe.output = <<>>
    /\ \A t \in Texts :
         (Len(t) = Len(probe.input) /\ OnlyDigits(t) = OnlyDigits(probe.input))
           <=> SameSanitizeText(t) = probe.output
    /\ probe.input # <<>> =>
         /\ includes(probe.output, Decimal(Len(probe.input)))
         /\ OnlyDigits(probe.input) <=>
              includes(probe.output, <<"d","i","g","i","t","s">>)
         /\ ~OnlyDigits(probe.input) <=>
              includes(probe.output, <<"c","h","a","r","a","c","t","e","r","s">>)
         /\ \A i \in 1..Len(probe.output) : probe.output[i] \in DescriptorChars
         /\ Len(probe.output) > 1 + Len(Decimal(Len(probe.input)))

\* Chyavan.sanitizeText was given "7a[", whose characters the descriptor
\* hides
C25_Witness ==
  /\ probe.fn = "sanitizeText"
  /\ probe.source = "Chyavan"
  /\ probe.input = <<"7", "a", "[">>
  /\ probe.output = <<"[", "3", " ", "c", "h", "a", "r", "a", "c", "t", "e", "r", "s", "]">>

\* the sanitizeText of index.js was given "17"
C25_StandaloneDigits ==
  /\ probe.fn = "sanitizeText"
  /\ probe.source = "index.js"
  /\ probe.input = <<"1", "7">>
  /\ probe.output = <<"T","y","p","e","d"," ","[","2","]"," ","d","i","g","i","t","s">>

\* the vocabulary of sensitive names of the specification
SensitiveNames ==
  {Units(<<"c","a","r","d">>), Units(<<"c","v","v">>), Units(<<"p","a","s","s","w","o","r","d">>),
   Units(<<"s","s","n">>), Units(<<"s","e","c","r","e","t">>), Units(<<"t","o","k","e","n">>)}

SensitiveTypes == {Units(<<"p","a","s","s","w","o","r","d">>), Units(<<"h","i","d","d","e","n">>)}

\* the names the isSensitiveField of index.js looks for
StandaloneNames ==
  {Units(<<"c","a","r","d">>), Units(<<"c","v","v">>), Units(<<"p","a","s","s","w","o","r","d">>),
   Units(<<"s","s","n">>)}

\* C26 as stated: isSensitiveField is true exactly when the type is
\* "password" or "hidden", or the name contains, case-insensitively, a word
\* of the vocabulary, or the autocomplete starts with "cc-"; false for an
\* absent target.
C26_AsStated ==
  probe.fn = "isSensitiveField" =>
    (probe.output <=>
       /\ ~IsAbsent(probe.input)
       /\ \/ probe.input.type \in SensitiveTypes
          \/ \E w \in SensitiveNames : includes(toLowerCase(probe.input.name), w)
          \/ startsWith(probe.input.autocomplete, Units(<<"c","c","-">>)))

\* Chyavan.isSensitiveField is as stated, the type and the autocomplete
\* being compared case-insensitively like the name.
C26_CaseInsensitive ==
  (probe.fn = "isSensitiveField" /\ probe.source = "Chyavan") =>
    (probe.output <=>
       /\ ~IsAbsent(probe.input)
       /\ \/ toLowerCase(probe.input.type) \in SensitiveTypes
          \/ \E w \in SensitiveNames : includes(toLowerCase(probe.input.name), w)
          \/ startsWith(toLowerCase(probe.input.autocomplete), Units(<<"c","c","-">>)))

\* the isSensitiveField of index.js is the same over a vocabulary without
\* secret and token
C26_StandaloneVocabulary ==
  (probe.fn = "isSensitiveField" /\ probe.source = "index.js") =>
    (probe.output <=>
       /\ ~IsAbsent(probe.input)
       /\ \/ toLowerCase(probe.input.type) \in SensitiveTypes
          \/ \E w \in StandaloneNames : includes(toLowerCase(probe.input.name), w)
          \/ startsWith(toLowerCase(probe.input.autocomplete), Units(<<"c","c","-">>)))

\* C26 for the isSensitiveField of index.js and targets whose type and
\* autocomplete are in lower case: refuted by a name with token in it
C26_StandaloneAsStated ==
  (probe.fn = "isSensitiveField" /\ probe.source = "index.js"
     /\ ~IsAbsent(probe.input)
     /\ toLowerCase(probe.input.type) = probe.input.type
     /\ toLowerCase(probe.input.autocomplete) = probe.input.autocomplete) =>
    (probe.output <=>
       \/ probe.input.type \in SensitiveTypes
       \/ \E w \in SensitiveNames : includes(toLowerCase(probe.input.name), w)
       \/ startsWith(probe.input.autocomplete, Units(<<"c","c","-">>)))

\* a target sensitive by its name alone, spelt in mixed case
C26_MixedCaseName ==
  /\ probe.fn = "isSensitiveField"
  /\ probe.source = "Chyavan"
  /\ probe.output
  /\ ~IsAbsent(probe.input)
  /\ probe.input.name = Units(<<"c","s","r","f","T","o","k","e","n">>)
  /\ probe.input.type = Units(<<"t","e","x","t">>)
  /\ probe.input.autocomplete = Units(<<"o","f","f">>)

(***************************************************************************)
(* Properties of destroy() against flushes in flight.                      *)
(***************************************************************************)
\* C31 as stated: once destroy() has returned the event buffer stays empty,
\* also when a flush that was in flight completes with a failure: no
\* completion puts events into the empty buffer of a destroyed, disabled
\* tracker.
C31_EmptyAfterDestroy ==
  [][(sessionId = Null /\ ~isTrackingEnabled /\ eventBuffer = <<>>
        /\ obs'.op \in {"settle", "resume"}) => eventBuffer' = <<>>]_vars

\* destroy() itself leaves the buffer empty, and a flush that resumes
\* outside its catch block keeps it so
C31_EmptyUnlessRequeued ==
  [][/\ obs'.op = "destroy" => eventBuffer' = <<>>
     /\ (sessionId = Null /\ eventBuffer = <<>> /\ obs'.op = "settle"
          /\ ~SendRejects(obs'.outcome)) => eventBuffer' = <<>>
     /\ (sessionId = Null /\ eventBuffer = <<>> /\ obs'.op = "resume"
          /\ obs'.fault = "none") => eventBuffer' = <<>>]_vars

(***************************************************************************)
(* Properties of the batches sent after an outage.                         *)
(***************************************************************************)
\* C32 as stated: every batch the client sends passes the receiver's
\* batch-size validation, also after any number of failed flushes and
\* requeues.
C32_BatchesPassValidation ==
  \A f \in flights : validateTrackingData(RequestBody(f.batch))

\* the second half of the statement: once the network is reachable no send is
\* answered with a rejection, so a batch grown during the outage does not
\* block delivery.
C32_AcceptedOnceReachable ==
  [][(env.network /\ obs'.op = "settle") => ~SendRejects(obs'.outcome)]_vars

\* a flush sends the whole buffer, requeued batches included
C32_WholeBufferSent ==
  [][(obs'.flushes = 1 /\ obs'.sent) =>
       /\ eventBuffer' = <<>>
       /\ \E f \in flights' : f.batch = obs'.batch /\ Len(f.batch) >= Len(eventBuffer)]_vars

(***************************************************************************)
(* Properties of the flush timer against mode and state.                   *)
(***************************************************************************)
\* the periodic flush timer is armed exactly when the controller is enabled
\* in a network mode
TimerMatchesMode ==
  (intervals > 0) <=> (isTrackingEnabled /\ ~ConsoleMode(config))

\* C33 as stated: the flush timer is armed if and only if the controller is
\* enabled and the mode is a network mode, and updateConfig() changing the
\* mode keeps it so.
C33_TimerFollowsMode ==
  [][(TimerMatchesMode /\ obs'.op = "updateConfig") => TimerMatchesMode']_vars

\* enable(), disable() and destroy() keep the timer in step with the state,
\* unless the listener setup of enable() throws
C33_KeptByLifecycle ==
  [][(TimerMatchesMode /\ obs'.op \in {"enable", "disable", "destroy"} /\ ~obs'.threw)
       => TimerMatchesMode']_vars

(***************************************************************************)
(* Properties of event custody.                                            *)
(***************************************************************************)
\* the events the client holds: buffered, or in the batch of a flush
\* suspended at its await
HeldIds ==
  Ids(eventBuffer)
    \cup UNION {Ids(f.batch) : f \in flights}
    \cup UNION {Ids(microtasks[i].batch) : i \in 1..Len(microtasks)}

\* the events a step lets go of, the one it accepted included
Released ==
  (HeldIds \cup (IF obs'.accepted /\ nextId' = nextId + 1 THEN {nextId} ELSE {}))
    \ HeldIds'

\* the ways an event may leave: a send containing it returned a success
\* status, a console-mode flush displayed it, or destroy()
ReleasedProperly ==
  \/ obs'.op = "destroy"
  \/ obs'.op = "settle" /\ ResponseOk(obs'.outcome) /\ Released \subseteq Ids(obs'.batch)
  \/ /\ ConsoleMode(config)
     /\ obs'.flushes = 1
     /\ obs'.fault = "none"
     /\ Released \subseteq Ids(obs'.batch)

\* C30 as stated: an accepted event leaves the client only after a network
\* send containing it returned a success status, after a console-mode flush
\* displayed it, or by destroy(); in a network mode no flush discards events
\* it has not sent.
C30_NoSilentDiscard ==
  [][Released # {} => ReleasedProperly]_vars

\* events leave otherwise only when a console-mode flush could not build
\* its table, or when a flush resumes after a sendEvents that returned at
\* once for want of an endpoint
C30_HoldsWithEndpoint ==
  [][(Released # {} /\ ~ReleasedProperly) =>
       \/ ConsoleMode(config) /\ obs'.fault = "display"
       \/ obs'.op = "resume" /\ obs'.fault = "none"]_vars

(***************************************************************************)
(* Properties of endpoint resolution.                                      *)
(***************************************************************************)
\* the endpoint the caller's options call for: none in console mode, the
\* supplied endpoint in self-hosted mode, the keyed hosted URL in hosted
\* mode with a key, otherwise the supplied endpoint or none
EndpointOfOptions(mode, apiKey, apiEndpoint) ==
  IF mode = "console" THEN Null
  ELSE IF mode = "self-hosted" /\ apiEndpoint # Null THEN apiEndpoint
  ELSE IF mode = "hosted" /\ apiKey THEN "hosted"
  ELSE apiEndpoint

\* C29 as stated: after construction and after every updateConfig() the
\* endpoint in force is that function of the caller-supplied mode, apiKey
\* and apiEndpoint, whatever an earlier evaluation resolved.
C29_EndpointFromOptions ==
  config.apiEndpoint = EndpointOfOptions(config.mode, config.apiKey, hist.supplied)

\* straight after construction the endpoint is that function of the options
C29_HoldsAtConstruction ==
  obs.op = "new" =>
    config.apiEndpoint = EndpointOfOptions(config.mode, config.apiKey, hist.supplied)

(***************************************************************************)
(* Properties of the keystroke debounce across the lifecycle.              *)
(***************************************************************************)
\* the events held in a sequence
Events(seq) == {seq[i] : i \in 1..Len(seq)}

\* the events of one type for one target among those accepted so far
EventsFor(type, target) ==
  {e \in Events(eventBuffer) \cup UNION {Events(f.batch) : f \in flights}
        \cup Events(obs.batch) :
     e.type = type /\ e.target = target}

\* what a step of the shared debouncedLog closure does
SharedDebounceStep ==
  /\ (obs'.op \in {"input", "mutation"} /\ keyDebounce' # keyDebounce) =>
       /\ keyDebounce'.cur # Null
       /\ keyDebounce'.stale = keyDebounce.stale
  /\ (obs'.op = "keystroke" /\ keyDebounce.cur # Null /\ keyDebounce'.cur = Null) =>
       /\ nextId' <= nextId + 1
       /\ keyDebounce'.stale = keyDebounce.stale
       /\ (obs'.accepted =>
            \E e \in Events(eventBuffer') \cup Events(obs'.batch) :
              e = [id |-> nextId, type |-> "keystroke", target |-> keyDebounce.cur,
                   data |-> PlainData])

\* C28: the input listeners and the mutation watcher share one debounce
\* instance: a call for element B clears the pending timeout of element A
\* and leaves no other timeout behind, and the expiry of the one pending
\* timeout tracks at most one keystroke event, which is B's.
C28_SharedDebounce == [][SharedDebounceStep]_vars

\* an input on email, then within the delay one on note, then the expiry:
\* one keystroke event, for note
C28_Witness ==
  /\ obs.op = "keystroke"
  /\ obs.accepted
  /\ keyDebounce = [cur |-> Null, superseded |-> "email", stale |-> EmptyBag]
  /\ nextId = 2
  /\ EventsFor("keystroke", "note") # {}
  /\ EventsFor("keystroke", "email") = {}

\* the timeout of a debouncedLog call made before the last disable() expires
StaleTimeoutExpires ==
  /\ keyDebounce'.stale # keyDebounce.stale
  /\ keyDebounce'.stale \sqsubseteq keyDebounce.stale

\* C27 as stated: disable() cancels the pending debounce timers, so a
\* debounced call made before disable() produces no event afterwards, even
\* when enable() was called again before the delay elapsed.
C27_DisableCancelsDebounce ==
  [][StaleTimeoutExpires => ~obs'.accepted]_vars

\* while tracking stays disabled the expiring timeout produces no event
C27_SilentWhileDisabled ==
  [][((keyDebounce'.stale # keyDebounce.stale \/ keyDebounce'.cur # keyDebounce.cur)
       /\ ~isTrackingEnabled /\ ~isTrackingEnabled') => ~obs'.accepted]_vars

(***************************************************************************)
(* Properties of debounce.                                                 *)
(***************************************************************************)
\* each call of the debounced function so far followed the one before by
\* less than the delay
IsBurst(calls, delay) ==
  /\ calls # <<>>
  /\ \A i \in 1..(Len(calls) - 1) : calls[i + 1].at - calls[i].at < delay

\* the last call of the debounced function so far
LastCall(calls) == calls[Len(calls)]

\* C19 as stated: never more than one timer pending; and for a burst of
\* calls each less than the delay after the one before, fn is called exactly
\* once, with the arguments of the last call, delay after the last call.
C19_ExactlyAfterDelay ==
  /\ Cardinality(timeline.pending) <= 1
  /\ IsBurst(timeline.calls, timeline.delay) =>
       LET last == LastCall(timeline.calls)
       IN \/ /\ timeline.emitted = <<>>
             /\ timeline.pending # {}
             /\ \A tm \in timeline.pending :
                  /\ tm.due = last.at + timeline.delay
                  /\ tm.args = last.args
          \/ /\ timeline.emitted =
                  <<[at |-> last.at + timeline.delay, args |-> last.args]>>
             /\ timeline.pending = {}

\* C19 amended: never more than one timer pending; and for a burst of calls
\* each less than the delay after the one before, fn is not called while the
\* last timer is pending, that timer is due delay after the last call, and
\* fn is called exactly once when it runs, no earlier than delay after the
\* last call and with the arguments of the last call.
C19_DebounceCollapse ==
  /\ Cardinality(timeline.pending) <= 1
  /\ IsBurst(timeline.calls, timeline.delay) =>
       LET last == LastCall(timeline.calls)
       IN \/ /\ timeline.emitted = <<>>
             /\ timeline.pending # {}
             /\ \A tm \in timeline.pending :
                  /\ tm.due = last.at + timeline.delay
                  /\ tm.args = last.args
          \/ /\ Len(timeline.emitted) = 1
             /\ timeline.emitted[1].args = last.args
             /\ timeline.emitted[1].at >= last.at + timeline.delay
             /\ timeline.pending = {}

\* calls at 0, 100, 150 and 200 ms with a delay of 400 ms (units of 50 ms):
\* one call of fn, at 600 ms, with the arguments of the fourth call
C19_Witness ==
  /\ timeline.delay = 8
  /\ timeline.calls = <<[at |-> 0, args |-> 1], [at |-> 2, args |-> 2],
                        [at |-> 3, args |-> 3], [at |-> 4, args |-> 4]>>
  /\ timeline.emitted = <<[at |-> 12, args |-> 4]>>
  /\ timeline.pending = {}

(***************************************************************************)
(* Properties of the capture listeners.                                    *)
(***************************************************************************)
\* C4 as stated: no buffered event was derived from a sensitive target.
C4_NoSensitiveEvents ==
  \A i \in 1..Len(eventBuffer) : ~IsSensitive(eventBuffer[i].target)

(***************************************************************************)
(* Properties of retry.                                                    *)
(***************************************************************************)
\* track() has just accepted the event with this id
JustAccepted(id) == obs.accepted /\ nextId = id + 1

\* a fetch whose batch holds this event has just been answered 2xx
JustDelivered(id) ==
  /\ obs.op = "settle"
  /\ ResponseOk(obs.outcome)
  /\ id \in Ids(obs.batch)

\* config.onFlush, if any, no longer throws
HookSettled == ~config.onFlush \/ env.hook

\* C9 as stated: enabled in a network mode, with ticks that keep firing and a
\* network that eventually succeeds, every accepted event is eventually
\* delivered in a successful send.
C9_AsStated ==
  \A id \in 1..MaxLiveEvents : JustAccepted(id) ~> JustDelivered(id)

\* C9 as stated, with an endpoint configured: still refuted, by a hook that
\* throws at every flush.
C9_AsStatedWithEndpoint ==
  config.apiEndpoint # Null =>
    \A id \in 1..MaxLiveEvents : JustAccepted(id) ~> JustDelivered(id)

\* the retry the code does make: every tick flushes the whole buffer,
\* requeued batches included, with no backoff and no cap; and every accepted
\* event is eventually delivered in the runs where an endpoint is
\* configured, the hook, if any, eventually stops throwing, and
\* JSON.stringify accepts the data of every buffered event.
C9_RetryUntilDelivered ==
  /\ [][(obs'.op = "tick" /\ eventBuffer # <<>>) =>
          /\ obs'.batch = eventBuffer
          /\ (config.apiEndpoint # Null /\ obs'.hook # "threw"
                /\ Serialisable(eventBuffer)) =>
               /\ obs'.sent
               /\ \E f \in flights' : f.batch = eventBuffer]_vars
  /\ [](isTrackingEnabled /\ config.mode # "console" /\ TaskMayStart => ENABLED Tick)
  /\ (config.apiEndpoint # Null /\ <>[]HookSettled /\ []Serialisable(eventBuffer)) =>
       \A id \in 1..MaxLiveEvents : JustAccepted(id) ~> JustDelivered(id)

\* an event whose data JSON.stringify rejects is never sent, and neither is
\* any event that shares the batch with it: sendEvents throws before fetch,
\* flush() leaves the buffer empty while it is suspended, and the batch is
\* requeued whole when it resumes
C9_PoisonedBatchNeverSent ==
  [][/\ (obs'.flushes = 1 /\ ~ConsoleMode(config) /\ config.apiEndpoint # Null
          /\ obs'.hook # "threw" /\ ~Serialisable(obs'.batch)) =>
          /\ ~obs'.sent
          /\ flights' = {[f EXCEPT !.alone = FALSE] : f \in flights}
          /\ eventBuffer' = <<>>
          /\ microtasks' = Append(microtasks, [batch |-> obs'.batch, rejected |-> TRUE])
          /\ obs'.promise = "pending"
     /\ (obs'.op = "resume" /\ obs'.fault = "body") =>
          /\ microtasks # <<>>
          /\ obs'.batch = Head(microtasks).batch
          /\ eventBuffer' = obs'.batch \o eventBuffer
          /\ flights' = flights
          /\ obs'.promise = "resolved"]_vars

\* a batch longer than bufferSize, which only requeues after failures build,
\* was sent again and answered 2xx once the network had healed
C9_GrownBatchDelivered ==
  /\ obs.op = "settle"
  /\ obs.outcome = "2xx_json"
  /\ env.network
  /\ Len(obs.batch) > config.bufferSize
  /\ eventBuffer = <<>>

====
